---------------------------- MODULE Spec2Model ----------------------------
(***************************************************************************)
(* The hierarchical batch scheduler of learncompass                        *)
(* (src/core/graph_nodes/submodules.py, wired by src/graph_builder.py):    *)
(* initialize_submodule_processing plans the batches,                      *)
(* process_submodule_batch runs one batch of process_single_submodule      *)
(* tasks under asyncio.gather and reduces their outcomes,                  *)
(* check_submodule_batch_processing routes the graph loop, and             *)
(* finalize_enhanced_learning_path assembles the output.                   *)
(*                                                                         *)
(* A Unit (EnhancedModule) is modelled by its number of sub-units; Python  *)
(* indices are 0-based, so module_id m is element m+1 of enhanced_modules. *)
(***************************************************************************)
EXTENDS Integers, Sequences, FiniteSets, TLC

\* Bounds of the pipeline specification.
MaxModules == 2
MaxSubs == 2
MaxK == 2
MaxFail == 2

\* Bounds of the planner specification (the planner alone, on larger hierarchies).
PlanMaxModules == 3
PlanMaxSubs == 4
PlanMaxK == 3

\* Bounds of the Finalizer specification (the Finalizer alone, on result lists in
\* every order).
FinMaxModules == 2
FinMaxSubs == 2
FinMaxResults == 3

\* Bounds of the resumed-invocation specification.
ExecMaxModules == 2
ExecMaxSubs == 2
ExecMaxK == 2

\* Bounds of the all-success pipeline specification (the worked scenarios).
ScenMaxModules == 2
ScenMaxSubs == 3
ScenMaxK == 2

\* Bounds of the specification with batches planned on a larger hierarchy.
MalMaxModules == 2
MalMaxSubs == 2
MalMaxK == 2

\* Bounds of the sub-unit planning specification.
PlanSubMaxModules == 3
PlanSubMaxSubs == 2
PlanSubMaxParallel == 2
PlanSubMaxFail == 2

\* Bounds of the Finalizer specification on a hierarchy that may have shrunk.
GroupMaxModules == 2
GroupMaxSubs == 2
GroupMaxResults == 3

\* Bounds of the progress specification: the number of batches and the batch size.
ProgMaxBatches == 50
ProgMaxK == 2

\* Bounds of the specification on uninitialized state.
UninitMaxModules == 2
UninitMaxSubs == 2
UninitMaxK == 2

\* Bounds of the migration specification: the records of the sessions table, the
\* runs of apply_migrations and the clock.
MigMaxRows == 2
MigMaxRuns == 3
MigMaxClock == 3

\* Bound of the specification with a failing progress callback: how many times the
\* callback raises in one run.
MaxCbFaults == 2

VARIABLES
    enhanced_modules,               \* state["enhanced_modules"]: sub-unit count per Unit
    submodule_parallel_count,       \* state["submodule_parallel_count"]
    failing,                        \* keys for which the unit-processor raises (environment)
    pc,                             \* the graph node about to run
    submodule_batches,              \* state["submodule_batches"]
    current_submodule_batch_index,  \* state["current_submodule_batch_index"]
    submodules_in_process,          \* state["submodules_in_process"]: key -> outcome
    developed_submodules,           \* state["developed_submodules"]
    tasks,                          \* the tasks handed to the current asyncio.gather
    orphans,                        \* tasks of an earlier gather that are still alive
    completion,                     \* keys of the current batch in order of completion
    launched,                       \* every key a task was ever created for
    calls,                          \* unit-processor invocations so far, per key
    cycles,                         \* executions of process_submodule_batch so far
    final_learning_path,            \* state["final_learning_path"]
    cb_faults,                      \* raises the progress callback may still produce
    modules,                        \* state["modules"]: the basic modules to plan
    parallel_count,                 \* state["parallel_count"]
    plan_failing,                   \* modules whose planning raises (environment)
    plan_tasks,                     \* the tasks of plan_submodules' gather
    processed_modules,              \* plan_submodules' processed_modules
    assembly_raises,                \* whether the Finalizer's assembly raises (environment)
    progress,                       \* the progress figures computed last
    absent,                         \* the keys absent from the state: state.get(key)
                                    \* is None, and the variable of an absent key
                                    \* holds what process_submodule_batch reads for it
    database                        \* the database behind DATABASE_URL

vars == <<enhanced_modules, submodule_parallel_count, failing, pc, submodule_batches,
          current_submodule_batch_index, submodules_in_process, developed_submodules,
          tasks, orphans, completion, launched, calls, cycles, final_learning_path,
          cb_faults, modules, parallel_count, plan_failing, plan_tasks,
          processed_modules, assembly_raises, progress, absent,
          database>>

\* The variables of plan_submodules
planning_vars == <<modules, parallel_count, plan_failing, plan_tasks, processed_modules>>

----------------------------------------------------------------------------
\* Generic helpers

Min(a, b) == IF a < b THEN a ELSE b

Range(s) == {s[i] : i \in 1..Len(s)}

RECURSIVE SeqsUpTo(_, _)
SeqsUpTo(S, n) ==
    IF n = 0 THEN {<<>>}
    ELSE LET shorter == SeqsUpTo(S, n - 1)
         IN  shorter \cup {Append(s, x) : s \in {t \in shorter : Len(t) = n - 1}, x \in S}

RECURSIVE Concat(_)
Concat(ss) == IF ss = <<>> THEN <<>> ELSE Head(ss) \o Concat(Tail(ss))

RECURSIVE SelectSeqBy(_, _)
SelectSeqBy(s, S) ==
    IF s = <<>> THEN <<>>
    ELSE (IF Head(s) \in S THEN <<Head(s)>> ELSE <<>>) \o SelectSeqBy(Tail(s), S)

CeilDiv(n, k) == (n + k - 1) \div k

----------------------------------------------------------------------------
\* The hierarchy

\* len(module.submodules) of module_id m, defined for 0 <= m < len(enhanced_modules)
SubCount(mods, m) == mods[m + 1]

\* The (module_id, sub_id) pairs of the hierarchy
HierarchyKeys(mods) ==
    UNION {{<<m, s>> : s \in 0..(SubCount(mods, m) - 1)} : m \in 0..(Len(mods) - 1)}

\* The hierarchies with at most maxM Units of at most maxS sub-units each
Hierarchies(maxM, maxS) == SeqsUpTo(0..maxS, maxM)

----------------------------------------------------------------------------
\* initialize_submodule_processing: the Decomposer and the Batch Planner

\* One entry of all_submodules for sub-unit s of module m
WorkItem(mods, m, s) ==
    [module_id |-> m, sub_id |-> s, total_submodules |-> SubCount(mods, m)]

ModuleItems_SkipFirst(mods, m) ==
    [i \in 1..(SubCount(mods, m) - 1) |-> WorkItem(mods, m, i)]

\* The entries of one module, range(len(module.submodules)), in order
ModuleItems(mods, m) ==
    [i \in 1..SubCount(mods, m) |-> WorkItem(mods, m, i - 1)]

RECURSIVE AllSubmodulesFrom(_, _)
AllSubmodulesFrom(mods, m) ==
    IF m >= Len(mods) THEN <<>>
    ELSE (IF SubCount(mods, m) > 0 THEN ModuleItems(mods, m) ELSE <<>>)
         \o AllSubmodulesFrom(mods, m + 1)

\* all_submodules before the sort: modules in order, sub-units in order
AllSubmodules(mods) == AllSubmodulesFrom(mods, 0)

\* distribution_key(a) < distribution_key(b) on the tuples
\* (sub_id / max(1, total_submodules), module_id).  The quotients are compared
\* exactly by cross-multiplication: for the small integers of a hierarchy two
\* float quotients are equal exactly when the fractions are.
Max1(n) == IF n < 1 THEN 1 ELSE n

KeyLess_BySubId(a, b) ==
    \/ a.sub_id < b.sub_id
    \/ a.sub_id = b.sub_id /\ a.module_id < b.module_id

KeyLess_ModuleFirst(a, b) ==
    \/ a.module_id < b.module_id
    \/ a.module_id = b.module_id /\ a.sub_id < b.sub_id

KeyLess_NoTieBreak(a, b) ==
    a.sub_id * Max1(b.total_submodules) < b.sub_id * Max1(a.total_submodules)

KeyLess(a, b) ==
    LET l == a.sub_id * Max1(b.total_submodules)
        r == b.sub_id * Max1(a.total_submodules)
    IN  \/ l < r
        \/ l = r /\ a.module_id < b.module_id

\* list.sort(key=...) is stable: x goes after every element whose key is not
\* greater than its own.
RECURSIVE InsertSorted(_, _)
InsertSorted(s, x) ==
    IF s = <<>> THEN <<x>>
    ELSE IF KeyLess(x, Head(s)) THEN <<x>> \o s
         ELSE <<Head(s)>> \o InsertSorted(Tail(s), x)

\* The first n items, sorted (each recursive result is bound to a value before
\* it is used)
RECURSIVE SortedPrefix(_, _)
SortedPrefix(s, n) ==
    IF n = 0 THEN <<>>
    ELSE CHOOSE r \in {InsertSorted(p, x) : p \in {SortedPrefix(s, n - 1)}, x \in {s[n]}} :
             TRUE

SortByDistributionKey_NoSort(s) == s

\* all_submodules.sort(key=distribution_key)
SortByDistributionKey(s) == SortedPrefix(s, Len(s))

\* all_pairs
AllPairs(mods) ==
    LET sorted == SortByDistributionKey(AllSubmodules(mods))
    IN  [i \in 1..Len(sorted) |-> <<sorted[i].module_id, sorted[i].sub_id>>]

\* helpers.batch_items(items, size): consecutive chunks of `size`, the last one
\* possibly shorter
RECURSIVE BatchesFrom(_, _, _)
BatchesFrom(items, size, start) ==
    IF start > Len(items) THEN <<>>
    ELSE <<SubSeq(items, start, Min(start + size - 1, Len(items)))>>
         \o BatchesFrom(items, size, start + size)

BatchItems(items, size) == BatchesFrom(items, size, 1)

PlannedBatches_OneBatch(mods, k) ==
    IF mods = <<>> THEN <<>>
    ELSE IF AllSubmodules(mods) = <<>> THEN <<>>
    ELSE <<AllPairs(mods)>>

\* The submodule_batches of the returned update (both early returns give [])
PlannedBatches(mods, k) ==
    IF mods = <<>> THEN <<>>
    ELSE IF AllSubmodules(mods) = <<>> THEN <<>>
    ELSE BatchItems(AllPairs(mods), k)

NoRecords == [key \in {} |-> [status |-> "none"]]

initialize_submodule_processing ==
    /\ pc = "initialize"
    /\ submodule_batches' = PlannedBatches(enhanced_modules, submodule_parallel_count)
    /\ current_submodule_batch_index' = 0
    /\ submodules_in_process' = NoRecords
    /\ developed_submodules' = <<>>
    /\ pc' = "process"
    /\ absent' = absent \ {"submodule_batches", "current_submodule_batch_index"}
    /\ UNCHANGED <<database, planning_vars, assembly_raises, progress,
                   enhanced_modules, submodule_parallel_count, failing, tasks, orphans,
                   completion, launched, calls, cycles, final_learning_path, cb_faults>>

----------------------------------------------------------------------------
\* process_single_submodule: one task of the batch

\* The payload the unit-processor produces for a key (opaque to the scheduler:
\* search_queries, search_results and content of the three stages)
Content(key) == <<"content", key[1], key[2]>>

\* The dict returned by the try branch
CompletedOutcome(key) ==
    [status |-> "completed", module_id |-> key[1], sub_id |-> key[2],
     content |-> Content(key)]

\* The dict returned by the except branch
ErrorOutcome(key) ==
    [status |-> "error", module_id |-> key[1], sub_id |-> key[2],
     error |-> "unit-processor raised"]

\* SubmoduleContent(module_id, submodule_id, ..., content=data.get("content", ""))
SubmoduleContent(key, data) ==
    [module_id |-> key[1], submodule_id |-> key[2],
     content |-> IF "content" \in DOMAIN data THEN data.content ELSE ""]

ProcessorOutcome_Raises(key, fails) ==
    IF key \in fails THEN [status |-> "raised", module_id |-> key[1], sub_id |-> key[2]]
    ELSE CompletedOutcome(key)

\* What process_single_submodule returns when its stages run to the end or
\* one of them raises
ProcessorOutcome(key, fails) ==
    IF key \in fails THEN ErrorOutcome(key) ELSE CompletedOutcome(key)

----------------------------------------------------------------------------
\* process_submodule_batch: task creation

InBounds_ModuleOnly(mods, key) == key[1] < Len(mods)

InBounds(mods, key) ==
    /\ key[1] < Len(mods)
    /\ key[2] < SubCount(mods, key[1])

IsCompleted(records, key) ==
    /\ key \in DOMAIN records
    /\ records[key].status = "completed"

Eligible_NoSkip(mods, records, key) == InBounds(mods, key)

Eligible_SkipsRecorded(mods, records, key) ==
    /\ key \notin DOMAIN records
    /\ InBounds(mods, key)

\* Whether the loop over current_batch appends a task for key
Eligible(mods, records, key) ==
    /\ ~IsCompleted(records, key)
    /\ InBounds(mods, key)

RECURSIVE TaskKeys(_, _, _)
\* task_to_submodule_map
TaskKeys(mods, records, batch) ==
    IF batch = <<>> THEN <<>>
    ELSE (IF Eligible(mods, records, Head(batch)) THEN <<Head(batch)>> ELSE <<>>)
         \o TaskKeys(mods, records, Tail(batch))

NewTask(key) == [key |-> key, st |-> "created", outcome |-> [status |-> "none"]]

\* The tasks of an earlier gather that have not terminated
Alive(ts) == {ts[i] : i \in {j \in 1..Len(ts) : ts[j].st # "done"}}

PastEnd == current_submodule_batch_index >= Len(submodule_batches)

CurrentBatch_AlwaysFirst == submodule_batches[1]

CurrentBatch == submodule_batches[current_submodule_batch_index + 1]

BatchBegin_PastEndAdvances ==
    /\ pc = "process"
    /\ cycles' = cycles + 1
    /\ IF PastEnd
       THEN /\ pc' = "check"
            /\ current_submodule_batch_index' = current_submodule_batch_index + 1
            /\ UNCHANGED <<tasks, orphans, completion, launched>>
       ELSE LET keys == TaskKeys(enhanced_modules, submodules_in_process, CurrentBatch)
            IN  /\ tasks' = [i \in 1..Len(keys) |-> NewTask(keys[i])]
                /\ orphans' = orphans \cup Alive(tasks)
                /\ completion' = <<>>
                /\ launched' = launched \cup Range(keys)
                /\ pc' = "gather"
                /\ UNCHANGED current_submodule_batch_index
    /\ UNCHANGED <<database, absent, planning_vars, assembly_raises, progress,
                   enhanced_modules, submodule_parallel_count, failing, submodule_batches,
                   submodules_in_process,
                   developed_submodules, calls, final_learning_path, cb_faults>>

\* Lines 287-339: the index check and the creation of the batch's tasks
BatchBegin ==
    /\ pc = "process"
    /\ cycles' = cycles + 1
    /\ IF PastEnd
       THEN /\ pc' = "check"
            /\ UNCHANGED <<tasks, orphans, completion, launched>>
       ELSE LET keys == TaskKeys(enhanced_modules, submodules_in_process, CurrentBatch)
            IN  /\ tasks' = [i \in 1..Len(keys) |-> NewTask(keys[i])]
                /\ orphans' = orphans \cup Alive(tasks)
                /\ completion' = <<>>
                /\ launched' = launched \cup Range(keys)
                /\ pc' = "gather"
    /\ UNCHANGED <<database, absent, planning_vars, assembly_raises, progress,
                   enhanced_modules, submodule_parallel_count, failing, submodule_batches,
                   current_submodule_batch_index, submodules_in_process,
                   developed_submodules, calls, final_learning_path, cb_faults>>

----------------------------------------------------------------------------
\* asyncio.gather(*tasks): the tasks run interleaved on the event loop

\* The event loop starts the tasks of a gather in the order they were created
MayStart(ts, i) ==
    /\ ts[i].st = "created"
    /\ \A j \in 1..(i - 1) : ts[j].st # "created"

\* A task takes its first step: process_single_submodule begins its stages
TaskStart(i) ==
    /\ pc = "gather"
    /\ i \in 1..Len(tasks)
    /\ MayStart(tasks, i)
    /\ tasks' = [tasks EXCEPT ![i].st = "running"]
    /\ calls' = [calls EXCEPT ![tasks[i].key] = @ + 1]
    /\ UNCHANGED <<database, absent, planning_vars, assembly_raises, progress,
                   enhanced_modules, submodule_parallel_count, failing, pc,
                   submodule_batches, current_submodule_batch_index,
                   submodules_in_process, developed_submodules, orphans, completion,
                   launched, cycles, final_learning_path, cb_faults>>

\* The effect of a task's return on the task table
TaskReturns(i) ==
    /\ pc = "gather"
    /\ i \in 1..Len(tasks)
    /\ tasks[i].st = "running"
    /\ tasks' = [tasks EXCEPT ![i].st = "done",
                              ![i].outcome = ProcessorOutcome(tasks[i].key, failing)]
    /\ completion' = Append(completion, tasks[i].key)

TaskFinish_WritesState(i) ==
    /\ TaskReturns(i)
    /\ developed_submodules' =
           IF tasks[i].key \in failing THEN developed_submodules
           ELSE Append(developed_submodules,
                       SubmoduleContent(tasks[i].key, CompletedOutcome(tasks[i].key)))
    /\ UNCHANGED <<database, absent, planning_vars, assembly_raises, progress,
                   enhanced_modules, submodule_parallel_count, failing, pc,
                   submodule_batches, current_submodule_batch_index,
                   submodules_in_process, orphans, launched,
                   calls, cycles, final_learning_path, cb_faults>>

TaskFinish_WritesRecord(i) ==
    /\ TaskReturns(i)
    /\ submodules_in_process' =
           (tasks[i].key :> ProcessorOutcome(tasks[i].key, failing)) @@ submodules_in_process
    /\ UNCHANGED <<database, absent, planning_vars, assembly_raises, progress,
                   enhanced_modules, submodule_parallel_count, failing, pc,
                   submodule_batches, current_submodule_batch_index,
                   developed_submodules, orphans, launched,
                   calls, cycles, final_learning_path, cb_faults>>

\* A running task returns its outcome
TaskFinish(i) ==
    /\ TaskReturns(i)
    /\ UNCHANGED <<database, absent, planning_vars, assembly_raises, progress,
                   enhanced_modules, submodule_parallel_count, failing, pc,
                   submodule_batches, current_submodule_batch_index,
                   submodules_in_process, developed_submodules, orphans, launched,
                   calls, cycles, final_learning_path, cb_faults>>

----------------------------------------------------------------------------
\* apply_migrations (backend/config/database.py)

\* The database as apply_migrations sees it: the kind of DATABASE_URL, whether
\* the sessions table exists, its columns among those the migration names, the
\* last_used_at value of each record ({} for NULL), whether idx_session_user_id
\* exists, the clock, the runs of apply_migrations so far and whether the last
\* run raised
NoDatabase ==
    [url |-> "other", table |-> FALSE, columns |-> {}, rows |-> <<>>,
     index |-> FALSE, now |-> 0, runs |-> 0, raised |-> FALSE]

MigrationNeeded_TableOnly(db) == db.table

\* The two tests: the sessions table exists and last_used_at is not a column
MigrationNeeded(db) == db.table /\ "last_used_at" \notin db.columns

\* ALTER TABLE sessions ADD COLUMN last_used_at TIMESTAMP: NULL in every record
AddColumn(db) ==
    [db EXCEPT !.columns = @ \cup {"last_used_at"},
               !.rows = IF "last_used_at" \in db.columns THEN @
                        ELSE [i \in DOMAIN @ |-> {}]]

\* UPDATE sessions SET last_used_at = <the current time>
SetDefaults(db) == [db EXCEPT !.rows = [i \in DOMAIN @ |-> {db.now}]]

\* CREATE INDEX IF NOT EXISTS idx_session_user_id ON sessions (user_id) raises
\* when sessions has no column user_id
IndexRaises(db) == "user_id" \notin db.columns

CreateIndex(db) == [db EXCEPT !.index = TRUE]

\* Lines 68-108: sqlite3 runs ALTER TABLE outside a transaction, so it stays;
\* the UPDATE opens the transaction that conn.rollback() undoes when the index
\* statement raises, and the exception is not re-raised
SqliteMigration(db) ==
    IF ~MigrationNeeded(db) THEN [db EXCEPT !.raised = FALSE]
    ELSE IF IndexRaises(db) THEN [AddColumn(db) EXCEPT !.raised = FALSE]
         ELSE [CreateIndex(SetDefaults(AddColumn(db))) EXCEPT !.raised = FALSE]

\* Lines 110-144: one transaction (engine.begin()), rolled back as a whole when
\* a statement raises, and the exception is re-raised
PostgresMigration(db) ==
    IF ~MigrationNeeded(db) THEN [db EXCEPT !.raised = FALSE]
    ELSE IF IndexRaises(db) THEN [db EXCEPT !.raised = TRUE]
         ELSE [CreateIndex(SetDefaults(AddColumn(db))) EXCEPT !.raised = FALSE]

\* The database after apply_migrations
ApplyMigrations(db) ==
    IF db.url = "sqlite" THEN SqliteMigration(db)
    ELSE IF db.url = "postgresql" THEN PostgresMigration(db)
    ELSE [db EXCEPT !.raised = FALSE]

apply_migrations ==
    /\ pc = "migrate"
    /\ database.runs < MigMaxRuns
    /\ database' = [ApplyMigrations(database) EXCEPT !.runs = @ + 1]
    /\ UNCHANGED <<absent, planning_vars, assembly_raises, progress,
                   enhanced_modules, submodule_parallel_count, failing, pc,
                   submodule_batches, current_submodule_batch_index,
                   submodules_in_process, developed_submodules, tasks, orphans,
                   completion, launched, calls, cycles, final_learning_path, cb_faults>>

\* Time passes between two runs (datetime.utcnow(), NOW())
ClockTick ==
    /\ pc = "migrate"
    /\ database.now < MigMaxClock
    /\ database' = [database EXCEPT !.now = @ + 1]
    /\ UNCHANGED <<absent, planning_vars, assembly_raises, progress,
                   enhanced_modules, submodule_parallel_count, failing, pc,
                   submodule_batches, current_submodule_batch_index,
                   submodules_in_process, developed_submodules, tasks, orphans,
                   completion, launched, calls, cycles, final_learning_path, cb_faults>>

----------------------------------------------------------------------------
\* Python float arithmetic of the progress figures: a float is a binary64, held
\* as [bits, exp] with value (the integer whose binary digits, most significant
\* first, are bits) * 2^exp; bits is empty for 0.0 and starts with 1 otherwise

\* The significand width of a binary64
MantissaBits == 53

RECURSIVE Pow2(_)
Pow2(n) == IF n <= 0 THEN 1 ELSE 2 * Pow2(n - 1)

\* The binary digits of a natural number, most significant first
RECURSIVE BitsOf(_)
BitsOf(n) == IF n = 0 THEN <<>> ELSE Append(BitsOf(n \div 2), n % 2)

\* The natural number of a short sequence of binary digits
RECURSIVE NatOf(_)
NatOf(bits) ==
    IF bits = <<>> THEN 0
    ELSE CHOOSE r \in {2 * NatOf(p) + x : p \in {SubSeq(bits, 1, Len(bits) - 1)},
                                            x \in {bits[Len(bits)]}} : TRUE

\* bits + 1
RECURSIVE Increment(_)
Increment(bits) ==
    IF bits = <<>> THEN <<1>>
    ELSE IF bits[Len(bits)] = 0 THEN [bits EXCEPT ![Len(bits)] = 1]
         ELSE CHOOSE r \in {Append(Increment(p), 0) :
                                p \in {SubSeq(bits, 1, Len(bits) - 1)}} : TRUE

\* Round to nearest, ties to even: `bits` are the digits kept, `above` tells
\* whether the discarded part is more than half a unit of the last digit kept,
\* `half` whether it is exactly half
RoundNearestEven(bits, above, half) ==
    IF above \/ (half /\ bits[Len(bits)] = 1) THEN Increment(bits) ELSE bits

\* The binary digits of r / b for 0 <= r < b, n more after those of `digits`,
\* and the remainder left
RECURSIVE QuotientDigits(_, _, _, _)
QuotientDigits(r, b, n, digits) ==
    IF n = 0 THEN [digits |-> digits, rem |-> r]
    ELSE CHOOSE q \in {QuotientDigits(x, y, m, d) :
                            x \in {IF 2 * r >= b THEN 2 * r - b ELSE 2 * r},
                            y \in {b}, m \in {n - 1},
                            d \in {Append(digits, IF 2 * r >= b THEN 1 ELSE 0)}} : TRUE

\* The least s with a * 2^s >= b
RECURSIVE Shift(_, _)
Shift(a, b) == IF a >= b THEN 0 ELSE 1 + Shift(2 * a, b)

\* a / b for ints 0 <= a, 0 < b: the binary64 nearest to the quotient
TrueDiv(a, b) ==
    IF a = 0 THEN [bits |-> <<>>, exp |-> 0]
    ELSE LET s == Shift(a, b)
             lead == BitsOf((a * Pow2(s)) \div b)
         IN  CHOOSE f \in {[bits |-> RoundNearestEven(q.digits, 2 * q.rem > b,
                                                      2 * q.rem = b),
                            exp |-> (Len(lead) - MantissaBits) - s] :
                           q \in {QuotientDigits((a * Pow2(s)) % b, b,
                                                 MantissaBits - Len(lead), lead)}} : TRUE

\* bits * n for a small natural n: the digits of `bits` from the last to the
\* first, with the carry and the digits of the product found so far
RECURSIVE TimesNat(_, _, _, _)
TimesNat(bits, n, carry, digits) ==
    IF bits = <<>> THEN BitsOf(carry) \o digits
    ELSE CHOOSE t \in {TimesNat(p, m, c, d) :
                            p \in {SubSeq(bits, 1, Len(bits) - 1)}, m \in {n},
                            c \in {(bits[Len(bits)] * n + carry) \div 2},
                            d \in {<<(bits[Len(bits)] * n + carry) % 2>> \o digits}} : TRUE

\* A product's digits rounded to the significand width
Rounded(bits, exp) ==
    IF Len(bits) <= MantissaBits THEN [bits |-> bits, exp |-> exp]
    ELSE LET drop == Len(bits) - MantissaBits
             low == SubSeq(bits, MantissaBits + 1, Len(bits))
             half == <<1>> \o [i \in 1..(drop - 1) |-> 0]
             above == low # half /\ low[1] = 1
         IN  [bits |-> RoundNearestEven(SubSeq(bits, 1, MantissaBits), above, low = half),
              exp |-> exp + drop]

\* f * n for a float f and a small natural n
FloatTimes(f, n) ==
    CHOOSE r \in {Rounded(p, f.exp) : p \in {TimesNat(f.bits, n, 0, <<>>)}} : TRUE

\* int(f): truncation of a float f >= 0
IntOf(f) ==
    IF Len(f.bits) + f.exp <= 0 THEN 0
    ELSE IF f.exp >= 0 THEN NatOf(f.bits) * Pow2(f.exp)
         ELSE NatOf(SubSeq(f.bits, 1, Len(f.bits) + f.exp))

\* min(100, int((processed_count / total_count) * 100)) of process_submodule_batch
Percentage(processed_count, total_count) ==
    CHOOSE pct \in {Min(100, IntOf(p)) :
                       p \in {FloatTimes(q, 100) :
                              q \in {TrueDiv(processed_count, total_count)}}} : TRUE

\* int((current_index / len(batches)) * 100) of check_submodule_batch_processing
ProgressPct(current_index, total) ==
    CHOOSE pct \in {IntOf(p) :
                       p \in {FloatTimes(q, 100) : q \in {TrueDiv(current_index, total)}}} : TRUE

----------------------------------------------------------------------------
\* The progress figures

\* No figure computed yet
NoProgress == [kind |-> "none"]

\* Lines 419-424: processed_count = current_index + 1, total_count =
\* len(sub_batches) and the percentage handed to the progress callback
BatchProgress(index, batches) ==
    [kind |-> "batch", processed_count |-> index + 1, total_count |-> Len(batches),
     percentage |-> Percentage(index + 1, Len(batches))]

\* The loop over batches[:current_index] of check_submodule_batch_processing
\* (lines 1114-1124): the entries counted and those with a completed or error
\* record
CountProcessed(records, entries) ==
    Len(SelectSeq(entries,
                  LAMBDA key : /\ key \in DOMAIN records
                               /\ records[key].status \in {"completed", "error"}))

\* Lines 1110-1124: the figures of the continue branch
CheckProgress(index, batches, records) ==
    LET entries == Concat(SubSeq(batches, 1, index))
    IN  [kind |-> "check", progress_pct |-> ProgressPct(index, Len(batches)),
         processed_count |-> CountProcessed(records, entries),
         total_count |-> Len(entries)]

----------------------------------------------------------------------------
\* process_submodule_batch: the reduce phase

\* asyncio.gather returns once every task has terminated
GatherDone_AnyTask(ts) == ts = <<>> \/ \E i \in 1..Len(ts) : ts[i].st = "done"

GatherDone_FirstCompleted(ts) ==
    \/ ts = <<>>
    \/ \E i \in 1..Len(ts) : ts[i].st = "done" /\ ts[i].outcome.status = "completed"

\* (normally: no task raised)
GatherDone(ts) ==
    \A i \in 1..Len(ts) : ts[i].st = "done" /\ ts[i].outcome.status # "raised"

\* The list gather returns: one outcome per task, in task order
GatherResults(ts) == [i \in 1..Len(ts) |-> ts[i].outcome]

ResultKey_Swapped(result) == <<result.sub_id, result.module_id>>

ResultKey(result) == <<result.module_id, result.sub_id>>

RECURSIVE WriteResults_StopAtError(_, _)
WriteResults_StopAtError(records, results) ==
    IF results = <<>> THEN records
    ELSE IF Head(results).status = "completed"
         THEN WriteResults_StopAtError(
                  (ResultKey(Head(results)) :> Head(results)) @@ records, Tail(results))
         ELSE (ResultKey(Head(results)) :> Head(results)) @@ records

\* The loop `for result in results`: submodules_in_process[key] = result
RECURSIVE WriteResults(_, _)
WriteResults(records, results) ==
    IF results = <<>> THEN records
    ELSE LET r == Head(results)
         IN  IF r.status \in {"completed", "error"}
             THEN WriteResults((ResultKey(r) :> r) @@ records, Tail(results))
             ELSE WriteResults(records, Tail(results))

Develops_AnyRecord(mods, records, key) ==
    /\ key \in DOMAIN records
    /\ InBounds(mods, key)

\* Whether the loop over current_batch appends an entry for key
Develops(mods, records, key) ==
    /\ IsCompleted(records, key)
    /\ InBounds(mods, key)

\* The loop `for module_id, sub_id in current_batch` appending to developed_submodules
RECURSIVE AppendDeveloped(_, _, _, _)
AppendDeveloped(dev, mods, records, batch) ==
    IF batch = <<>> THEN dev
    ELSE AppendDeveloped(
             IF Develops(mods, records, Head(batch))
             THEN Append(dev, SubmoduleContent(Head(batch), records[Head(batch)]))
             ELSE dev,
             mods, records, Tail(batch))

NextIndex_Stuck(index) == index

NextIndex_SkipsOne(index) == index + 2

\* next_index
NextIndex(index) == index + 1

\* The reduce loop and the append loop, on the state's own dict and list
ReduceWrites ==
    LET records == WriteResults(submodules_in_process, GatherResults(tasks))
    IN  /\ submodules_in_process' = records
        /\ developed_submodules' =
               AppendDeveloped(developed_submodules, enhanced_modules, records,
                               CurrentBatch)

\* Lines 347-431: gather has returned; reduce, append, advance the index
BatchReduce ==
    /\ pc = "gather"
    /\ GatherDone(tasks)
    /\ ReduceWrites
    /\ current_submodule_batch_index' = NextIndex(current_submodule_batch_index)
    /\ progress' = BatchProgress(current_submodule_batch_index, submodule_batches)
    /\ pc' = "check"
    /\ absent' = absent \ {"current_submodule_batch_index"}
    /\ UNCHANGED <<database, planning_vars, assembly_raises,
                   enhanced_modules, submodule_parallel_count, failing,
                   submodule_batches, tasks, orphans, completion, launched, calls,
                   cycles, final_learning_path, cb_faults>>

----------------------------------------------------------------------------
\* check_submodule_batch_processing and the conditional edge of build_graph

CheckResult_OffByOne(index, batches) ==
    IF index + 1 >= Len(batches) THEN "all_batches_processed" ELSE "continue_processing"

CheckResult_Strict(index, batches) ==
    IF index > Len(batches) THEN "all_batches_processed" ELSE "continue_processing"

\* The string check_submodule_batch_processing returns on initialized state
CheckResult(index, batches) ==
    IF index >= Len(batches) THEN "all_batches_processed" ELSE "continue_processing"

CheckOutcome_IgnoresAbsent(missing, index, batches) == CheckResult(index, batches)

\* The string check_submodule_batch_processing returns: lines 1069-1074 when
\* current_submodule_batch_index or submodule_batches is None, and then as above
CheckOutcome(missing, index, batches) ==
    IF missing \cap {"current_submodule_batch_index", "submodule_batches"} # {}
    THEN "all_batches_processed"
    ELSE CheckResult(index, batches)

Route_AlwaysFinalize(result) == "finalize"

\* graph.add_conditional_edges("process_submodule_batch", check_..., {...})
Route(result) ==
    IF result = "all_batches_processed" THEN "finalize" ELSE "process"

check_submodule_batch_processing_Increments ==
    /\ pc = "check"
    /\ pc' = Route(CheckResult(current_submodule_batch_index, submodule_batches))
    /\ current_submodule_batch_index' =
           IF CheckResult(current_submodule_batch_index, submodule_batches)
                  = "continue_processing"
           THEN current_submodule_batch_index + 1
           ELSE current_submodule_batch_index
    /\ UNCHANGED <<database, absent, planning_vars, assembly_raises, progress,
                   enhanced_modules, submodule_parallel_count, failing,
                   submodule_batches,
                   submodules_in_process, developed_submodules, tasks, orphans,
                   completion, launched, calls, cycles, final_learning_path, cb_faults>>

check_submodule_batch_processing ==
    /\ pc = "check"
    /\ pc' = Route(CheckOutcome(absent, current_submodule_batch_index, submodule_batches))
    /\ progress' =
           IF CheckOutcome(absent, current_submodule_batch_index, submodule_batches)
                  = "continue_processing"
           THEN CheckProgress(current_submodule_batch_index, submodule_batches,
                              submodules_in_process)
           ELSE progress
    /\ UNCHANGED <<database, absent, planning_vars, assembly_raises,
                   enhanced_modules, submodule_parallel_count, failing,
                   submodule_batches, current_submodule_batch_index,
                   submodules_in_process, developed_submodules, tasks, orphans,
                   completion, launched, calls, cycles, final_learning_path, cb_faults>>

----------------------------------------------------------------------------
\* finalize_enhanced_learning_path

GroupOf_All(dev, m) == dev

\* module_to_subs.setdefault(sub.module_id, []).append(sub): the entries of one
\* module, in the order of developed_submodules
RECURSIVE GroupOf(_, _)
GroupOf(dev, m) ==
    IF dev = <<>> THEN <<>>
    ELSE (IF Head(dev).module_id = m THEN <<Head(dev)>> ELSE <<>>) \o GroupOf(Tail(dev), m)

\* sort(key=lambda s: s.submodule_id), stable
RECURSIVE InsertBySubId(_, _)
InsertBySubId(s, x) ==
    IF s = <<>> THEN <<x>>
    ELSE IF x.submodule_id < Head(s).submodule_id THEN <<x>> \o s
         ELSE <<Head(s)>> \o InsertBySubId(Tail(s), x)

RECURSIVE SortedBySubIdPrefix(_, _)
SortedBySubIdPrefix(s, n) ==
    IF n = 0 THEN <<>>
    ELSE CHOOSE r \in {InsertBySubId(p, x) : p \in {SortedBySubIdPrefix(s, n - 1)},
                                             x \in {s[n]}} : TRUE

SortBySubId(s) == SortedBySubIdPrefix(s, Len(s))

SortedGroup_Unsorted(dev, m) == GroupOf(dev, m)

\* module_to_subs.get(module_id, []) after the sort
SortedGroup(dev, m) == SortBySubId(GroupOf(dev, m))

\* One entry of submodule_data
SubmoduleData(sub) ==
    [id |-> sub.submodule_id, order |-> sub.submodule_id + 1, content |-> sub.content]

\* One entry of final_modules
ModuleData(dev, m) ==
    LET subs == SortedGroup(dev, m)
    IN  [id |-> m, submodules |-> [i \in 1..Len(subs) |-> SubmoduleData(subs[i])]]

FinalModules_DropsEmptyUnits(dev, mods) ==
    LET NonEmpty(md) == md.submodules # <<>>
    IN  SelectSeq([i \in 1..Len(mods) |-> ModuleData(dev, i - 1)], NonEmpty)

\* final_learning_path["modules"]: [] when developed_submodules is empty (the
\* early return), otherwise one entry per module of enhanced_modules
FinalModules(dev, mods) ==
    IF dev = <<>> THEN <<>>
    ELSE [i \in 1..Len(mods) |-> ModuleData(dev, i - 1)]

\* state["user_topic"]
UserTopic == "user_topic"

NoPath == [topic |-> UserTopic, modules |-> <<>>]

ErrorPath_NoMarker == [topic |-> UserTopic, modules |-> <<>>]

\* The dict of the except branch (lines 1055-1057)
ErrorPath == [topic |-> UserTopic, modules |-> <<>>, error |-> "assembly raised"]

\* final_learning_path of the returned update: the assembled path, or the
\* degenerate one when the assembly inside the try raised
FinalLearningPath(dev, mods, raises) ==
    IF dev # <<>> /\ raises THEN ErrorPath
    ELSE [topic |-> UserTopic, modules |-> FinalModules(dev, mods)]

finalize_enhanced_learning_path ==
    /\ pc = "finalize"
    /\ final_learning_path' =
           FinalLearningPath(developed_submodules, enhanced_modules, assembly_raises)
    /\ pc' = "done"
    /\ UNCHANGED <<database, absent, planning_vars, assembly_raises, progress,
                   enhanced_modules, submodule_parallel_count, failing,
                   submodule_batches, current_submodule_batch_index,
                   submodules_in_process, developed_submodules, tasks, orphans,
                   completion, launched, calls, cycles, cb_faults>>

----------------------------------------------------------------------------
\* plan_submodules: the sub-unit planning of the Units, under a semaphore

\* A basic module of state["modules"], with the number of sub-units its planning
\* chain yields when it does not raise
BasicModule(idx, n) ==
    [title |-> <<"title", idx>>, description |-> <<"description", idx>>, subs |-> n]

\* EnhancedModule(title=..., description=..., submodules=...)
EnhancedModule(module, n) ==
    [title |-> module.title, description |-> module.description, submodules |-> n]

\* What the task of plan_module_submodules leaves in the gather
\* (return_exceptions=True): the enhanced module, or the exception it re-raised
PlanOutcome(module, idx, fails) ==
    IF idx \in fails THEN [exception |-> "planning raised"]
    ELSE EnhancedModule(module, module.subs)

IsException(result) == "exception" \in DOMAIN result

ProcessedModules_DropsFailed(mods, results) ==
    SelectSeq(results, LAMBDA result : ~IsException(result))

\* The loop `for idx, result in enumerate(enhanced_modules)`
ProcessedModules(mods, results) ==
    [idx \in 1..Len(results) |->
        IF IsException(results[idx]) THEN EnhancedModule(mods[idx], 0)
        ELSE results[idx]]

\* The sub-unit counts of a list of enhanced modules
SubCounts(enhanced) == [idx \in 1..Len(enhanced) |-> enhanced[idx].submodules]

NewPlanTask == [st |-> "waiting", result |-> [status |-> "none"]]

\* The tasks inside `async with sem`
PlanningNow(ts) == {i \in 1..Len(ts) : ts[i].st = "running"}

\* Lines 34-58: the early return without modules, else the creation of the tasks
PlanBegin ==
    /\ pc = "plan"
    /\ IF modules = <<>>
       THEN /\ processed_modules' = <<>>
            /\ enhanced_modules' = <<>>
            /\ pc' = "initialize"
            /\ UNCHANGED plan_tasks
       ELSE /\ plan_tasks' = [idx \in 1..Len(modules) |-> NewPlanTask]
            /\ pc' = "plan_gather"
            /\ UNCHANGED <<processed_modules, enhanced_modules>>
    /\ UNCHANGED <<database, absent, modules, parallel_count, plan_failing, assembly_raises, progress,
                   submodule_parallel_count, failing, submodule_batches,
                   current_submodule_batch_index, submodules_in_process,
                   developed_submodules, tasks, orphans, completion, launched, calls,
                   cycles, final_learning_path, cb_faults>>

PlanTaskAcquire_NoSemaphore(i) ==
    /\ pc = "plan_gather"
    /\ i \in 1..Len(plan_tasks)
    /\ plan_tasks[i].st = "waiting"
    /\ plan_tasks' = [plan_tasks EXCEPT ![i].st = "running"]
    /\ UNCHANGED <<database, absent, modules, parallel_count, plan_failing, processed_modules,
                   assembly_raises, progress, enhanced_modules, pc,
                   submodule_parallel_count, failing, submodule_batches,
                   current_submodule_batch_index, submodules_in_process,
                   developed_submodules, tasks, orphans, completion, launched, calls,
                   cycles, final_learning_path, cb_faults>>

\* `async with sem`: a task enters when a permit is free; waiters are served in
\* the order in which they arrived, which is the order of the tasks
PlanTaskAcquire(i) ==
    /\ pc = "plan_gather"
    /\ i \in 1..Len(plan_tasks)
    /\ plan_tasks[i].st = "waiting"
    /\ \A j \in 1..(i - 1) : plan_tasks[j].st # "waiting"
    /\ Cardinality(PlanningNow(plan_tasks)) < parallel_count
    /\ plan_tasks' = [plan_tasks EXCEPT ![i].st = "running"]
    /\ UNCHANGED <<database, absent, modules, parallel_count, plan_failing, processed_modules,
                   assembly_raises, progress, enhanced_modules, pc,
                   submodule_parallel_count, failing, submodule_batches,
                   current_submodule_batch_index, submodules_in_process,
                   developed_submodules, tasks, orphans, completion, launched, calls,
                   cycles, final_learning_path, cb_faults>>

\* plan_module_submodules returns or raises; the permit is released
PlanTaskFinish(i) ==
    /\ pc = "plan_gather"
    /\ i \in 1..Len(plan_tasks)
    /\ plan_tasks[i].st = "running"
    /\ plan_tasks' = [plan_tasks EXCEPT ![i].st = "done",
                                        ![i].result = PlanOutcome(modules[i], i, plan_failing)]
    /\ UNCHANGED <<database, absent, modules, parallel_count, plan_failing, processed_modules,
                   assembly_raises, progress, enhanced_modules, pc,
                   submodule_parallel_count, failing, submodule_batches,
                   current_submodule_batch_index, submodules_in_process,
                   developed_submodules, tasks, orphans, completion, launched, calls,
                   cycles, final_learning_path, cb_faults>>

\* Lines 61-85: the gather has returned; fallbacks for the exceptions, and the
\* update with enhanced_modules
PlanReduce ==
    /\ pc = "plan_gather"
    /\ \A i \in 1..Len(plan_tasks) : plan_tasks[i].st = "done"
    /\ LET processed ==
               ProcessedModules(modules, [i \in 1..Len(plan_tasks) |-> plan_tasks[i].result])
       IN  /\ processed_modules' = processed
           /\ enhanced_modules' = SubCounts(processed)
           /\ calls' = [key \in HierarchyKeys(SubCounts(processed)) |-> 0]
    /\ pc' = "initialize"
    /\ UNCHANGED <<database, absent, modules, parallel_count, plan_failing, plan_tasks, assembly_raises, progress,
                   submodule_parallel_count, failing, submodule_batches,
                   current_submodule_batch_index, submodules_in_process,
                   developed_submodules, tasks, orphans, completion, launched,
                   cycles, final_learning_path, cb_faults>>

\* The planning variables once plan_submodules has returned the hierarchy mods
PlanningOver(mods) ==
    LET basic == [idx \in 1..Len(mods) |-> BasicModule(idx, mods[idx])]
        results == [idx \in 1..Len(mods) |-> PlanOutcome(basic[idx], idx, {})]
    IN  /\ modules = basic
        /\ parallel_count = 1
        /\ plan_failing = {}
        /\ plan_tasks = [idx \in 1..Len(mods) |-> [st |-> "done", result |-> results[idx]]]
        /\ processed_modules = ProcessedModules(basic, results)

----------------------------------------------------------------------------
\* The pipeline run: build_graph's edges from initialize_submodule_processing on

\* The state plan_submodules hands to initialize_submodule_processing
EntryStateCb(mods, k, fails, faults) ==
    /\ enhanced_modules = mods
    /\ submodule_parallel_count = k
    /\ failing = fails
    /\ pc = "initialize"
    /\ submodule_batches = <<>>
    /\ current_submodule_batch_index = 0
    /\ submodules_in_process = NoRecords
    /\ developed_submodules = <<>>
    /\ tasks = <<>>
    /\ orphans = {}
    /\ completion = <<>>
    /\ launched = {}
    /\ calls = [key \in HierarchyKeys(mods) |-> 0]
    /\ cycles = 0
    /\ final_learning_path = NoPath
    /\ cb_faults = faults
    /\ PlanningOver(mods)
    /\ assembly_raises = FALSE
    /\ progress = NoProgress
    /\ absent = {}
    /\ database = NoDatabase

\* ... with a progress callback that is absent or never raises
EntryState(mods, k, fails) == EntryStateCb(mods, k, fails, 0)

Init ==
    \E mods \in Hierarchies(MaxModules, MaxSubs), k \in 1..MaxK :
        \E fails \in {f \in SUBSET HierarchyKeys(mods) : Cardinality(f) <= MaxFail} :
            EntryState(mods, k, fails)

Next ==
    \/ initialize_submodule_processing
    \/ BatchBegin
    \/ \E i \in 1..MaxK + 1 : TaskStart(i)
    \/ \E i \in 1..MaxK + 1 : TaskFinish(i)
    \/ BatchReduce
    \/ check_submodule_batch_processing
    \/ finalize_enhanced_learning_path

Spec == Init /\ [][Next]_vars

\* A step of the loop process_submodule_batch -> check_submodule_batch_processing
LoopStep ==
    \/ BatchBegin
    \/ \E i \in 1..MaxK + 1 : TaskStart(i)
    \/ \E i \in 1..MaxK + 1 : TaskFinish(i)
    \/ BatchReduce
    \/ check_submodule_batch_processing

\* The scheduling: the graph runs the node an edge leads to, the event loop runs
\* every task that is ready, and every unit-processor call terminates
FairSpec == Spec /\ WF_vars(LoopStep)

----------------------------------------------------------------------------
\* The batch cycle with a progress callback that raises: every
\* `await progress_callback(...)` of process_submodule_batch and
\* process_single_submodule may raise, cb_faults times in a run

\* What a task that let an exception escape leaves in the gather
RaisedOutcome(key) == [status |-> "raised", module_id |-> key[1], sub_id |-> key[2]]

\* Lines 295-296, 338-339, 389-390: the callback raises before the gather, outside
\* any try: process_submodule_batch raises and the graph run ends
BatchStartCallbackRaises ==
    /\ pc = "process"
    /\ cb_faults > 0
    /\ cb_faults' = cb_faults - 1
    /\ cycles' = cycles + 1
    /\ pc' = "aborted"
    /\ UNCHANGED <<database, absent, planning_vars, assembly_raises, progress,
                   enhanced_modules, submodule_parallel_count, failing, submodule_batches,
                   current_submodule_batch_index, submodules_in_process,
                   developed_submodules, tasks, orphans, completion, launched, calls,
                   final_learning_path>>

\* Lines 470-517: a milestone callback raises inside the task's try; the except
\* branch reports it (line 537, not raising) and returns an error outcome
TaskMilestoneCallbackRaises(i) ==
    /\ pc = "gather"
    /\ i \in 1..Len(tasks)
    /\ tasks[i].st = "running"
    /\ cb_faults > 0
    /\ cb_faults' = cb_faults - 1
    /\ tasks' = [tasks EXCEPT ![i].st = "done", ![i].outcome = ErrorOutcome(tasks[i].key)]
    /\ completion' = Append(completion, tasks[i].key)
    /\ UNCHANGED <<database, absent, planning_vars, assembly_raises, progress,
                   enhanced_modules, submodule_parallel_count, failing, pc,
                   submodule_batches, current_submodule_batch_index,
                   submodules_in_process, developed_submodules, orphans, launched,
                   calls, cycles, final_learning_path>>

\* The raises it takes for the error report of line 537 to raise: the report
\* itself, after a failed stage or after a milestone callback that raised
ErrorReportFaults(key) == IF key \in failing THEN 1 ELSE 2

\* Lines 534-537: the callback raises in the except branch; the exception leaves
\* the task
TaskErrorReportRaises(i) ==
    /\ pc = "gather"
    /\ i \in 1..Len(tasks)
    /\ tasks[i].st = "running"
    /\ cb_faults >= ErrorReportFaults(tasks[i].key)
    /\ cb_faults' = cb_faults - ErrorReportFaults(tasks[i].key)
    /\ tasks' = [tasks EXCEPT ![i].st = "done", ![i].outcome = RaisedOutcome(tasks[i].key)]
    /\ completion' = Append(completion, tasks[i].key)
    /\ UNCHANGED <<database, absent, planning_vars, assembly_raises, progress,
                   enhanced_modules, submodule_parallel_count, failing, pc,
                   submodule_batches, current_submodule_batch_index,
                   submodules_in_process, developed_submodules, orphans, launched,
                   calls, cycles, final_learning_path>>

Terminated(ts) == SelectSeq(ts, LAMBDA task : task.st = "done")

\* Lines 347, 383-431: gather(return_exceptions=False) re-raises the exception of
\* a task at once, without waiting for or cancelling the other tasks; the except
\* branch reports it (line 386) and, unless that raises too, the function goes on
\* to the append loop and the index: no outcome of the batch is written
GatherRaises(reportRaises) ==
    /\ pc = "gather"
    /\ \E i \in 1..Len(tasks) : tasks[i].outcome.status = "raised"
    /\ reportRaises => cb_faults > 0
    /\ cb_faults' = IF reportRaises THEN cb_faults - 1 ELSE cb_faults
    /\ pc' = IF reportRaises THEN "aborted" ELSE "check"
    /\ developed_submodules' =
           IF reportRaises THEN developed_submodules
           ELSE AppendDeveloped(developed_submodules, enhanced_modules,
                                submodules_in_process, CurrentBatch)
    /\ current_submodule_batch_index' =
           IF reportRaises THEN current_submodule_batch_index
           ELSE NextIndex(current_submodule_batch_index)
    /\ orphans' = orphans \cup Alive(tasks)
    /\ tasks' = Terminated(tasks)
    /\ progress' =
           IF reportRaises THEN progress
           ELSE BatchProgress(current_submodule_batch_index, submodule_batches)
    /\ absent' = IF reportRaises THEN absent
               ELSE absent \ {"current_submodule_batch_index"}
    /\ UNCHANGED <<database, planning_vars, assembly_raises,
                   enhanced_modules, submodule_parallel_count, failing,
                   submodule_batches, submodules_in_process, completion, launched,
                   calls, cycles, final_learning_path>>

\* Lines 376-386: the batch summary callback raises inside the try, after the
\* reduce loop; the except branch reports it (line 386) and, unless that raises
\* too, the function goes on to the append loop and the index
BatchSummaryCallbackRaises(reportRaises) ==
    /\ pc = "gather"
    /\ tasks # <<>>
    /\ GatherDone(tasks)
    /\ cb_faults >= (IF reportRaises THEN 2 ELSE 1)
    /\ cb_faults' = cb_faults - (IF reportRaises THEN 2 ELSE 1)
    /\ LET records == WriteResults(submodules_in_process, GatherResults(tasks))
       IN  /\ submodules_in_process' = records
           /\ developed_submodules' =
                  IF reportRaises THEN developed_submodules
                  ELSE AppendDeveloped(developed_submodules, enhanced_modules,
                                       records, CurrentBatch)
    /\ current_submodule_batch_index' =
           IF reportRaises THEN current_submodule_batch_index
           ELSE NextIndex(current_submodule_batch_index)
    /\ pc' = IF reportRaises THEN "aborted" ELSE "check"
    /\ progress' =
           IF reportRaises THEN progress
           ELSE BatchProgress(current_submodule_batch_index, submodule_batches)
    /\ absent' = IF reportRaises THEN absent
               ELSE absent \ {"current_submodule_batch_index"}
    /\ UNCHANGED <<database, planning_vars, assembly_raises,
                   enhanced_modules, submodule_parallel_count, failing,
                   submodule_batches, tasks, orphans, completion, launched, calls,
                   cycles, final_learning_path>>

\* Lines 418-423: the last callback raises after both loops have written into the
\* state's dict and list; the update with next_index is never returned
BatchEndCallbackRaises ==
    /\ pc = "gather"
    /\ GatherDone(tasks)
    /\ cb_faults > 0
    /\ cb_faults' = cb_faults - 1
    /\ ReduceWrites
    /\ pc' = "aborted"
    /\ progress' = BatchProgress(current_submodule_batch_index, submodule_batches)
    /\ UNCHANGED <<database, absent, planning_vars, assembly_raises,
                   enhanced_modules, submodule_parallel_count, failing,
                   submodule_batches, current_submodule_batch_index, tasks, orphans,
                   completion, launched, calls, cycles, final_learning_path>>

\* A task that its gather no longer waits for takes its next step: it starts, or
\* it terminates and its outcome is dropped
OrphanStep(o) ==
    /\ o \in orphans
    /\ IF o.st = "created"
       THEN /\ orphans' = (orphans \ {o}) \cup {[o EXCEPT !.st = "running"]}
            /\ calls' = [calls EXCEPT ![o.key] = @ + 1]
       ELSE /\ orphans' = orphans \ {o}
            /\ UNCHANGED calls
    /\ UNCHANGED <<database, absent, planning_vars, assembly_raises, progress,
                   enhanced_modules, submodule_parallel_count, failing, pc,
                   submodule_batches, current_submodule_batch_index,
                   submodules_in_process, developed_submodules, tasks, completion,
                   launched, cycles, final_learning_path, cb_faults>>

InitCb ==
    \E mods \in Hierarchies(MaxModules, MaxSubs), k \in 1..MaxK :
        \E fails \in {f \in SUBSET HierarchyKeys(mods) : Cardinality(f) <= MaxFail} :
            EntryStateCb(mods, k, fails, MaxCbFaults)

NextCb ==
    \/ Next
    \/ BatchStartCallbackRaises
    \/ \E i \in 1..MaxK + 1 : TaskMilestoneCallbackRaises(i)
    \/ \E i \in 1..MaxK + 1 : TaskErrorReportRaises(i)
    \/ \E reportRaises \in BOOLEAN : GatherRaises(reportRaises)
    \/ \E reportRaises \in BOOLEAN : BatchSummaryCallbackRaises(reportRaises)
    \/ BatchEndCallbackRaises
    \/ \E o \in orphans : OrphanStep(o)

SpecCb == InitCb /\ [][NextCb]_vars

\* The planner alone, on the hierarchies of the planner bounds
InitPlan ==
    \E mods \in Hierarchies(PlanMaxModules, PlanMaxSubs), k \in 1..PlanMaxK :
        EntryState(mods, k, {})

NextPlan == initialize_submodule_processing

SpecPlan == InitPlan /\ [][NextPlan]_vars

\* The whole pipeline when every unit-processor call succeeds, on the hierarchies
\* of the scenario bounds
InitScen ==
    \E mods \in Hierarchies(ScenMaxModules, ScenMaxSubs), k \in 1..ScenMaxK :
        EntryState(mods, k, {})

NextScen ==
    \/ initialize_submodule_processing
    \/ BatchBegin
    \/ \E i \in 1..ScenMaxK : TaskStart(i)
    \/ \E i \in 1..ScenMaxK : TaskFinish(i)
    \/ BatchReduce
    \/ check_submodule_batch_processing
    \/ finalize_enhanced_learning_path

SpecScen == InitScen /\ [][NextScen]_vars

\* The Finalizer alone: the state at the end of the loop, with the completed
\* sub-units appended to developed_submodules in any order
FinalizerInputOn(mods, dev, raises) ==
    LET keys == {<<dev[i].module_id, dev[i].submodule_id>> : i \in 1..Len(dev)}
        batches == PlannedBatches(mods, 1)
    IN  /\ enhanced_modules = mods
        /\ submodule_parallel_count = 1
        /\ failing = HierarchyKeys(mods) \ keys
        /\ pc = "finalize"
        /\ submodule_batches = batches
        /\ current_submodule_batch_index = Len(batches)
        /\ submodules_in_process =
               [key \in HierarchyKeys(mods) |-> ProcessorOutcome(key, HierarchyKeys(mods) \ keys)]
        /\ developed_submodules = dev
        /\ tasks = <<>>
        /\ orphans = {}
        /\ completion = <<>>
        /\ launched = HierarchyKeys(mods)
        /\ calls = [key \in HierarchyKeys(mods) |-> 1]
        /\ cycles = Len(batches)
        /\ final_learning_path = NoPath
        /\ cb_faults = 0
        /\ PlanningOver(mods)
        /\ assembly_raises = raises
        /\ progress = NoProgress
        /\ absent = {}
        /\ database = NoDatabase

\* ... when the assembly does not raise
FinalizerInput(mods, dev) == FinalizerInputOn(mods, dev, FALSE)

\* The result lists over the hierarchy: at most FinMaxResults entries, one per key
ResultLists(mods) ==
    {[i \in 1..Len(s) |-> SubmoduleContent(s[i], CompletedOutcome(s[i]))] :
        s \in {q \in SeqsUpTo(HierarchyKeys(mods), FinMaxResults) :
                  \A i, j \in 1..Len(q) : q[i] = q[j] => i = j}}

InitFinal ==
    \E mods \in Hierarchies(FinMaxModules, FinMaxSubs) :
        \E dev \in ResultLists(mods) : FinalizerInput(mods, dev)

NextFinal == finalize_enhanced_learning_path

SpecFinal == InitFinal /\ [][NextFinal]_vars

\* process_submodule_batch invoked again on a batch (the resumable skip): the
\* batches below `index` have been processed, and the entries of batch `index`
\* carry the records `st` of an earlier invocation on that batch ("none": no
\* record).  An entry that failed before fails again.
ResumedStateOn(planned, mods, k, index, st) ==
    LET batches == PlannedBatches(planned, k)
        earlier == Range(Concat(SubSeq(batches, 1, index)))
        current == DOMAIN st
        recorded == earlier \cup {key \in current : st[key] # "none"}
        fails == {key \in current : st[key] = "error"}
    IN  /\ enhanced_modules = mods
        /\ submodule_parallel_count = k
        /\ failing = fails
        /\ pc = "process"
        /\ submodule_batches = batches
        /\ current_submodule_batch_index = index
        /\ submodules_in_process = [key \in recorded |-> ProcessorOutcome(key, fails)]
        /\ developed_submodules =
               LET done == SelectSeqBy(Concat(batches), recorded \ fails)
               IN  [i \in 1..Len(done) |->
                       SubmoduleContent(done[i], CompletedOutcome(done[i]))]
        /\ tasks = <<>>
        /\ orphans = {}
        /\ completion = <<>>
        /\ launched = recorded
        /\ calls = [key \in HierarchyKeys(planned) |-> IF key \in recorded THEN 1 ELSE 0]
        /\ cycles = index
        /\ final_learning_path = NoPath
        /\ cb_faults = 0
        /\ PlanningOver(mods)
        /\ assembly_raises = FALSE
        /\ progress = NoProgress
        /\ absent = {}
        /\ database = NoDatabase

\* ... with the batches planned on the hierarchy of the state
ResumedState(mods, k, index, st) == ResumedStateOn(mods, mods, k, index, st)

\* The entries of batch `index` (none past the end)
BatchKeys(batches, index) ==
    IF index < Len(batches) THEN Range(batches[index + 1]) ELSE {}

InitExec ==
    \E mods \in Hierarchies(ExecMaxModules, ExecMaxSubs), k \in 1..ExecMaxK :
        \E index \in 0..Len(PlannedBatches(mods, k)) :
            \E st \in [BatchKeys(PlannedBatches(mods, k), index)
                           -> {"none", "completed", "error"}] :
                ResumedState(mods, k, index, st)

NextExec ==
    \/ BatchBegin
    \/ \E i \in 1..ExecMaxK + 1 : TaskStart(i)
    \/ \E i \in 1..ExecMaxK + 1 : TaskFinish(i)
    \/ BatchReduce
    \/ check_submodule_batch_processing
    \/ finalize_enhanced_learning_path

SpecExec == InitExec /\ [][NextExec]_vars

\* process_submodule_batch on batches that were planned on a hierarchy `planned`
\* while state["enhanced_modules"] lost its last Unit, or a Unit its last
\* sub-unit, since: some batch entries lie outside the hierarchy
Shrunk(planned) ==
    (IF planned = <<>> THEN {} ELSE {SubSeq(planned, 1, Len(planned) - 1)})
    \cup {[planned EXCEPT ![m] = @ - 1] : m \in {i \in 1..Len(planned) : planned[i] > 0}}

InitMal ==
    \E planned \in Hierarchies(MalMaxModules, MalMaxSubs), k \in 1..MalMaxK :
        \E mods \in Shrunk(planned) :
            \E st \in [BatchKeys(PlannedBatches(planned, k), 0)
                           -> {"none", "completed", "error"}] :
                ResumedStateOn(planned, mods, k, 0, st)

NextMal ==
    \/ BatchBegin
    \/ \E i \in 1..MalMaxK : TaskStart(i)
    \/ \E i \in 1..MalMaxK : TaskFinish(i)
    \/ BatchReduce
    \/ check_submodule_batch_processing
    \/ finalize_enhanced_learning_path

SpecMal == InitMal /\ [][NextMal]_vars

\* plan_submodules alone: the basic modules, the parallelism and the modules
\* whose planning chain raises
PlanningEntry(counts, pk, fails) ==
    /\ modules = [idx \in 1..Len(counts) |-> BasicModule(idx, counts[idx])]
    /\ parallel_count = pk
    /\ plan_failing = fails
    /\ plan_tasks = <<>>
    /\ processed_modules = <<>>
    /\ assembly_raises = FALSE
    /\ progress = NoProgress
    /\ absent = {}
    /\ database = NoDatabase
    /\ enhanced_modules = <<>>
    /\ submodule_parallel_count = 1
    /\ failing = {}
    /\ pc = "plan"
    /\ submodule_batches = <<>>
    /\ current_submodule_batch_index = 0
    /\ submodules_in_process = NoRecords
    /\ developed_submodules = <<>>
    /\ tasks = <<>>
    /\ orphans = {}
    /\ completion = <<>>
    /\ launched = {}
    /\ calls = [key \in {} |-> 0]
    /\ cycles = 0
    /\ final_learning_path = NoPath
    /\ cb_faults = 0

InitPlanSub ==
    \E counts \in SeqsUpTo(1..PlanSubMaxSubs, PlanSubMaxModules),
       pk \in 1..PlanSubMaxParallel :
        \E fails \in {f \in SUBSET (1..Len(counts)) : Cardinality(f) <= PlanSubMaxFail} :
            PlanningEntry(counts, pk, fails)

NextPlanSub ==
    \/ PlanBegin
    \/ \E i \in 1..PlanSubMaxModules : PlanTaskAcquire(i)
    \/ \E i \in 1..PlanSubMaxModules : PlanTaskFinish(i)
    \/ PlanReduce

SpecPlanSub == InitPlanSub /\ [][NextPlanSub]_vars

\* The scheduling: the event loop runs every task that is ready, and every
\* planning call terminates
FairSpecPlanSub == SpecPlanSub /\ WF_vars(NextPlanSub)

\* The Finalizer alone, with an assembly that may raise
InitFinFault ==
    \E mods \in Hierarchies(FinMaxModules, FinMaxSubs), raises \in BOOLEAN :
        \E dev \in ResultLists(mods) : FinalizerInputOn(mods, dev, raises)

NextFinFault == finalize_enhanced_learning_path

SpecFinFault == InitFinFault /\ [][NextFinFault]_vars

\* The result lists made for a hierarchy: at most GroupMaxResults entries, one
\* per key
GroupResultLists(planned) ==
    {[i \in 1..Len(s) |-> SubmoduleContent(s[i], CompletedOutcome(s[i]))] :
        s \in {q \in SeqsUpTo(HierarchyKeys(planned), GroupMaxResults) :
                  \A i, j \in 1..Len(q) : q[i] = q[j] => i = j}}

\* The Finalizer alone, on results made for a hierarchy `planned` of which
\* state["enhanced_modules"] may since have lost its last Unit, or a Unit its
\* last sub-unit: some entries carry a module_id or a sub-unit id outside it
InitFinGroup ==
    \E planned \in Hierarchies(GroupMaxModules, GroupMaxSubs) :
        \E mods \in {planned} \cup Shrunk(planned) :
            \E dev \in GroupResultLists(planned) : FinalizerInput(mods, dev)

NextFinGroup == finalize_enhanced_learning_path

SpecFinGroup == InitFinGroup /\ [][NextFinGroup]_vars

\* The pipeline on hierarchies of up to ProgMaxBatches Units of one sub-unit
\* each, planned into as many batches or fewer, with a progress callback that
\* takes the figures
InitProg ==
    \E n \in 1..ProgMaxBatches, k \in 1..ProgMaxK :
        \E fails \in {{}, {<<0, 0>>}} :
            EntryState([m \in 1..n |-> 1], k, fails)

NextProg ==
    \/ initialize_submodule_processing
    \/ BatchBegin
    \/ \E i \in 1..ProgMaxK : TaskStart(i)
    \/ \E i \in 1..ProgMaxK : TaskFinish(i)
    \/ BatchReduce
    \/ check_submodule_batch_processing
    \/ finalize_enhanced_learning_path

SpecProg == InitProg /\ [][NextProg]_vars

\* A state in which initialize_submodule_processing has not run: the keys of
\* `missing` are absent, process_submodule_batch reads [] for absent batches
\* (line 290) and 0 for an absent index (line 291), and the node `at` runs next
UninitializedState(mods, k, missing, at) ==
    /\ enhanced_modules = mods
    /\ submodule_parallel_count = k
    /\ failing = {}
    /\ pc = at
    /\ submodule_batches =
           IF "submodule_batches" \in missing THEN <<>> ELSE PlannedBatches(mods, k)
    /\ current_submodule_batch_index = 0
    /\ submodules_in_process = NoRecords
    /\ developed_submodules = <<>>
    /\ tasks = <<>>
    /\ orphans = {}
    /\ completion = <<>>
    /\ launched = {}
    /\ calls = [key \in HierarchyKeys(mods) |-> 0]
    /\ cycles = 0
    /\ final_learning_path = NoPath
    /\ cb_faults = 0
    /\ PlanningOver(mods)
    /\ assembly_raises = FALSE
    /\ progress = NoProgress
    /\ absent = missing
    /\ database = NoDatabase

InitUninit ==
    \E mods \in Hierarchies(UninitMaxModules, UninitMaxSubs), k \in 1..UninitMaxK :
        \E missing \in SUBSET {"current_submodule_batch_index", "submodule_batches"},
           at \in {"process", "check"} :
            UninitializedState(mods, k, missing, at)

NextUninit ==
    \/ BatchBegin
    \/ \E i \in 1..UninitMaxK : TaskStart(i)
    \/ \E i \in 1..UninitMaxK : TaskFinish(i)
    \/ BatchReduce
    \/ check_submodule_batch_processing
    \/ finalize_enhanced_learning_path

SpecUninit == InitUninit /\ [][NextUninit]_vars

\* The databases apply_migrations may find: any kind of DATABASE_URL, with or
\* without the sessions table, its columns, records and index
Databases ==
    {[url |-> u, table |-> FALSE, columns |-> {}, rows |-> <<>>, index |-> FALSE,
      now |-> 1, runs |-> 0, raised |-> FALSE] : u \in {"sqlite", "postgresql", "other"}}
    \cup
    {[url |-> u, table |-> TRUE, columns |-> c, rows |-> r, index |-> x,
      now |-> 1, runs |-> 0, raised |-> FALSE] :
        u \in {"sqlite", "postgresql", "other"},
        c \in SUBSET {"user_id", "last_used_at"},
        r \in SeqsUpTo({{}, {0}}, MigMaxRows),
        x \in BOOLEAN}

\* Startup: apply_migrations runs on the database, the pipeline being idle
InitMig ==
    /\ database \in {db \in Databases :
                        /\ "last_used_at" \notin db.columns
                               => \A i \in DOMAIN db.rows : db.rows[i] = {}
                        /\ db.index => "user_id" \in db.columns}
    /\ pc = "migrate"
    /\ enhanced_modules = <<>>
    /\ submodule_parallel_count = 1
    /\ failing = {}
    /\ submodule_batches = <<>>
    /\ current_submodule_batch_index = 0
    /\ submodules_in_process = NoRecords
    /\ developed_submodules = <<>>
    /\ tasks = <<>>
    /\ orphans = {}
    /\ completion = <<>>
    /\ launched = {}
    /\ calls = [key \in {} |-> 0]
    /\ cycles = 0
    /\ final_learning_path = NoPath
    /\ cb_faults = 0
    /\ PlanningOver(<<>>)
    /\ assembly_raises = FALSE
    /\ progress = NoProgress
    /\ absent = {"current_submodule_batch_index", "submodule_batches"}

NextMig ==
    \/ apply_migrations
    \/ ClockTick

SpecMig == InitMig /\ [][NextMig]_vars

----------------------------------------------------------------------------
\* Properties

\* The number N of WorkItems of the hierarchy
N == Cardinality(HierarchyKeys(enhanced_modules))

\* All batch entries, in batch order
PlannedPairs == Concat(submodule_batches)

\* The entries of the batches below the current index
ProcessedPairs == Concat(SubSeq(submodule_batches, 1, current_submodule_batch_index))

NoDuplicates(s) == \A i, j \in 1..Len(s) : s[i] = s[j] => i = j

Planned == pc \notin {"plan", "plan_gather", "initialize"}

\* C1 (Coverage): once initialize_submodule_processing has run, the batches hold
\* every pair (module_id, sub_id) of the hierarchy exactly once and no other pair.
C1_Coverage ==
    Planned =>
        /\ Range(PlannedPairs) = HierarchyKeys(enhanced_modules)
        /\ NoDuplicates(PlannedPairs)

C1_Witness ==
    /\ Planned
    /\ Len(submodule_batches) >= 3
    /\ Len(enhanced_modules) >= 2
    /\ \E m \in 1..Len(enhanced_modules) : enhanced_modules[m] = 0
    /\ \E m \in 1..Len(enhanced_modules) : enhanced_modules[m] >= 3

\* C2 (Termination): with N >= 1 WorkItems the loop reaches
\* "all_batches_processed" (the route to the Finalizer), and when it does
\* process_submodule_batch has been executed exactly ceil(N/k) times.
C2_Termination ==
    /\ [](N >= 1 /\ pc \in {"finalize", "done"}
            => cycles = CeilDiv(N, submodule_parallel_count))
    /\ [](N >= 1 /\ pc = "check"
            /\ CheckResult(current_submodule_batch_index, submodule_batches)
                   = "continue_processing"
            => cycles < CeilDiv(N, submodule_parallel_count))
    /\ (N >= 1 /\ pc = "process") ~> (pc = "finalize")

C2_Witness ==
    /\ pc = "finalize"
    /\ N >= 3
    /\ submodule_parallel_count = 2
    /\ cycles = 2

BatchAt(b) == submodule_batches[b]

\* The finalized entry the Reducer appends for a completed key
DevelopedEntry(key) ==
    [module_id |-> key[1], submodule_id |-> key[2], content |-> Content(key)]

\* C3 (Error isolation): after the cycle of a batch of size >= 2 in which the
\* unit-processor failed for some entries, every entry whose processor call
\* succeeded has a record of status completed with its own payload and its entry
\* in developed_submodules, and every failed entry has a record of status error.
C3_ErrorIsolation ==
    \A b \in 1..current_submodule_batch_index :
        (Len(BatchAt(b)) >= 2 /\ Range(BatchAt(b)) \cap failing # {}) =>
            \A key \in Range(BatchAt(b)) :
                IF key \in failing
                THEN /\ key \in DOMAIN submodules_in_process
                     /\ submodules_in_process[key].status = "error"
                     /\ DevelopedEntry(key) \notin Range(developed_submodules)
                ELSE /\ key \in DOMAIN submodules_in_process
                     /\ submodules_in_process[key] = CompletedOutcome(key)
                     /\ DevelopedEntry(key) \in Range(developed_submodules)

C3_Witness ==
    /\ pc = "check"
    /\ current_submodule_batch_index >= 1
    /\ LET batch == BatchAt(current_submodule_batch_index)
       IN  /\ Len(batch) >= 2
           /\ batch[1] \in failing
           /\ batch[2] \notin failing
           /\ IsCompleted(submodules_in_process, batch[2])

\* The tasks that have started and not yet terminated
RunningTasks ==
    {tasks[i].key : i \in {j \in 1..Len(tasks) : tasks[j].st = "running"}}

RunningOrphans == {o \in orphans : o.st = "running"}

StartedCurrent ==
    {tasks[i].key : i \in {j \in 1..Len(tasks) : tasks[j].st # "created"}}

\* C4 (Strict batch sequencing): whenever a task of the current batch has
\* started, every task launched for an earlier batch has terminated and its
\* outcome is in submodules_in_process.
C4_StrictSequencing ==
    StartedCurrent # {} =>
        /\ orphans = {}
        /\ \A key \in launched :
               \/ key \in {tasks[i].key : i \in 1..Len(tasks)}
               \/ /\ key \in DOMAIN submodules_in_process
                  /\ submodules_in_process[key].status \in {"completed", "error"}

C4_Witness ==
    /\ pc = "gather"
    /\ current_submodule_batch_index >= 1
    /\ Len(BatchAt(current_submodule_batch_index)) >= 2
    /\ RunningTasks # {}

\* C5 (Bounded concurrency): the number of process_single_submodule tasks that
\* have started and not terminated never exceeds submodule_parallel_count.
C5_BoundedConcurrency ==
    Cardinality(RunningTasks) + Cardinality(RunningOrphans) <= submodule_parallel_count

C5_Witness ==
    /\ submodule_parallel_count >= 2
    /\ Cardinality(RunningTasks) = submodule_parallel_count
    /\ N > submodule_parallel_count

\* The record map and the result list that the batch plan and the processor
\* outcomes alone determine for the batches below the current index
ExpectedRecords ==
    [key \in Range(ProcessedPairs) |-> ProcessorOutcome(key, failing)]

ExpectedDeveloped ==
    LET ok == SelectSeqBy(ProcessedPairs, Range(ProcessedPairs) \ failing)
    IN  [i \in 1..Len(ok) |-> DevelopedEntry(ok[i])]

\* C6 (Order-independent reduction): whatever the order in which the tasks of
\* a batch complete, submodules_in_process and developed_submodules (content and
\* order) are the values determined by the batch plan and the processor outcomes.
C6_OrderIndependent ==
    /\ submodules_in_process = ExpectedRecords
    /\ developed_submodules = ExpectedDeveloped

\* A cycle whose two tasks completed in the reverse of their task order
C6_Witness ==
    /\ pc = "check"
    /\ Len(tasks) >= 2
    /\ Len(completion) = Len(tasks)
    /\ completion[1] = tasks[2].key
    /\ completion[2] = tasks[1].key
    /\ failing = {}

\* The Units none of whose sub-units has an entry in developed_submodules
UnitsWithoutResults ==
    {m \in 0..(Len(enhanced_modules) - 1) :
        \A i \in 1..Len(developed_submodules) : developed_submodules[i].module_id # m}

\* One entry per Unit, in hierarchy order, Units without results with an empty list
OneEntryPerUnit ==
    /\ Len(final_learning_path.modules) = Len(enhanced_modules)
    /\ \A i \in 1..Len(final_learning_path.modules) :
           /\ final_learning_path.modules[i].id = i - 1
           /\ (i - 1) \in UnitsWithoutResults
                  => final_learning_path.modules[i].submodules = <<>>

\* C7 as claimed (the Finalizer never drops a Unit): in every run the output has
\* exactly one entry per Unit of enhanced_modules, in hierarchy order, also when no
\* sub-unit of any Unit completed.
C7_NeverDropsUnit_Claimed ==
    pc = "done" => OneEntryPerUnit

\* C7 as amended: when at least one sub-unit completed, the output has exactly one
\* entry per Unit, in hierarchy order, and Units without results have an empty
\* submodules list; when developed_submodules is empty the modules list is empty.
C7_NeverDropsUnit_Amended ==
    pc = "done" =>
        IF developed_submodules = <<>>
        THEN final_learning_path.modules = <<>>
        ELSE OneEntryPerUnit

\* A run in which one Unit lost all its sub-units to errors, another Unit has no
\* sub-unit at all or completed some, and the output still lists every Unit
C7_Witness ==
    /\ pc = "done"
    /\ developed_submodules # <<>>
    /\ Len(enhanced_modules) >= 2
    /\ \E m \in UnitsWithoutResults :
           /\ SubCount(enhanced_modules, m) >= 1
           /\ final_learning_path.modules[m + 1].submodules = <<>>

StrictlyAscendingIds(subs) ==
    \A i, j \in 1..Len(subs) : i < j => subs[i].id < subs[j].id

\* C8 (Final ordering): in the Finalizer's output every Unit's submodules list is
\* strictly ascending by sub-unit id, whatever the order of developed_submodules.
C8_FinalOrdering ==
    pc = "done" =>
        \A i \in 1..Len(final_learning_path.modules) :
            StrictlyAscendingIds(final_learning_path.modules[i].submodules)

\* Results of one Unit appended in descending order, and sorted in the output
C8_Witness ==
    /\ pc = "done"
    /\ \E i, j \in 1..Len(developed_submodules) :
           /\ i < j
           /\ developed_submodules[i].module_id = developed_submodules[j].module_id
           /\ developed_submodules[i].submodule_id > developed_submodules[j].submodule_id
    /\ \E i \in 1..Len(final_learning_path.modules) :
           Len(final_learning_path.modules[i].submodules) >= 2

\* Every entry of the batch at the current index has a record of status completed
CurrentBatchAllCompleted ==
    /\ ~PastEnd
    /\ \A key \in Range(CurrentBatch) :
           /\ key \in DOMAIN submodules_in_process
           /\ submodules_in_process[key].status = "completed"

\* C9 (Idempotence): process_submodule_batch invoked on a batch all of whose
\* entries already have a completed record creates no task, so no unit-processor
\* call is launched (a call is made only by a task of the gather).
C9_Idempotence ==
    (pc = "gather" /\ CurrentBatchAllCompleted) =>
        /\ tasks = <<>>
        /\ \A key \in Range(CurrentBatch) : calls[key] = 1

C9_Witness ==
    /\ pc = "gather"
    /\ CurrentBatchAllCompleted
    /\ Len(CurrentBatch) >= 2
    /\ tasks = <<>>

\* C10 (Progress reporting is fire-and-forget): when the progress callback raises
\* at one of its invocation points (batch start, per-unit milestones, the per-unit
\* error report, batch end), the batch cycle still completes, and
\* submodules_in_process, developed_submodules and current_submodule_batch_index
\* are the values they have with a callback that never fails.
C10_FireAndForget ==
    /\ pc # "aborted"
    /\ pc \in {"process", "check", "finalize", "done"}
           => /\ submodules_in_process = ExpectedRecords
              /\ developed_submodules = ExpectedDeveloped

\* C11 (The Executor never raises because of a unit failure): a task whose
\* unit-processor raised terminates with an outcome of status error carrying its
\* own (module_id, sub_id) and the error message, every other task terminates
\* with its own completed outcome, the gather over the batch returns instead of
\* raising, and process_submodule_batch returns its update.
C11_ExecutorNeverRaises ==
    /\ pc # "aborted"
    /\ \A i \in 1..Len(tasks) :
           tasks[i].st = "done" =>
               /\ ResultKey(tasks[i].outcome) = tasks[i].key
               /\ IF tasks[i].key \in failing
                  THEN /\ tasks[i].outcome.status = "error"
                       /\ "error" \in DOMAIN tasks[i].outcome
                  ELSE tasks[i].outcome.status = "completed"
    /\ (pc = "gather" /\ \A i \in 1..Len(tasks) : tasks[i].st = "done")
           => ENABLED BatchReduce

\* A batch of two whose first unit-processor call raised and whose second did
\* not: the invocation has returned and the index has advanced
C11_Witness ==
    /\ pc = "check"
    /\ Len(tasks) = 2
    /\ tasks[1].key \in failing
    /\ tasks[1].outcome.status = "error"
    /\ tasks[2].outcome.status = "completed"
    /\ current_submodule_batch_index >= 1
    /\ submodules_in_process[tasks[1].key].status = "error"

\* The key (sub_id / parent_size, module_id) of a pair of the hierarchy, compared
\* as exact fractions
RelPosLess(p, q) ==
    p[2] * SubCount(enhanced_modules, q[1]) < q[2] * SubCount(enhanced_modules, p[1])

RelPosEqual(p, q) ==
    p[2] * SubCount(enhanced_modules, q[1]) = q[2] * SubCount(enhanced_modules, p[1])

PairKeyLess(p, q) ==
    \/ RelPosLess(p, q)
    \/ RelPosEqual(p, q) /\ p[1] < q[1]

\* C12 (Planner result): the concatenation of the batches, in batch order, is the
\* list of all WorkItems in ascending order of the key (sub_id / parent_size,
\* module_id), and batch b is the b-th consecutive chunk of size k of that list.
C12_PlannerResult ==
    Planned =>
        /\ Len(PlannedPairs) = N
        /\ Range(PlannedPairs) = HierarchyKeys(enhanced_modules)
        /\ \A i, j \in 1..Len(PlannedPairs) :
               i < j => PairKeyLess(PlannedPairs[i], PlannedPairs[j])
        /\ \A b \in 1..Len(submodule_batches) :
               /\ submodule_batches[b] # <<>>
               /\ submodule_batches[b] =
                      SubSeq(PlannedPairs, (b - 1) * submodule_parallel_count + 1,
                             Min(b * submodule_parallel_count, N))

\* A plan of Units of different sizes in which the enumeration order (module by
\* module) was changed by the sort, cut into several chunks
C12_Witness ==
    /\ Planned
    /\ Len(submodule_batches) >= 2
    /\ submodule_parallel_count >= 2
    /\ \E i, j \in 1..Len(PlannedPairs) :
           /\ i < j
           /\ PlannedPairs[i][1] > PlannedPairs[j][1]
           /\ PlannedPairs[i][2] >= 1
           /\ SubCount(enhanced_modules, PlannedPairs[i][1])
                  # SubCount(enhanced_modules, PlannedPairs[j][1])

\* C13 (Batch size): every batch has at least 1 and at most k entries, every
\* batch except the last has exactly k entries, and there are ceil(N/k) batches.
C13_BatchSize ==
    Planned =>
        /\ \A b \in 1..Len(submodule_batches) :
               /\ Len(submodule_batches[b]) >= 1
               /\ Len(submodule_batches[b]) <= submodule_parallel_count
               /\ b < Len(submodule_batches)
                      => Len(submodule_batches[b]) = submodule_parallel_count
        /\ Len(submodule_batches) = CeilDiv(N, submodule_parallel_count)

\* A plan whose last batch is shorter than the others
C13_Witness ==
    /\ Planned
    /\ submodule_parallel_count >= 2
    /\ Len(submodule_batches) >= 2
    /\ Len(submodule_batches[Len(submodule_batches)]) < submodule_parallel_count

\* The sub-unit ids of one Unit of the output, in output order
OutputIds(unit) == [i \in 1..Len(unit.submodules) |-> unit.submodules[i].id]

\* C14 (Scenario): for 2 Units with sub-unit counts [3, 1] and k = 2, all
\* processors succeeding, the planner yields the batches
\* [[(0,0),(1,0)], [(0,1),(0,2)]], process_submodule_batch is executed exactly
\* twice, and the output has Unit 0 with sub-results 0, 1, 2 in that order and
\* Unit 1 with sub-result 0.
C14_Scenario ==
    (enhanced_modules = <<3, 1>> /\ submodule_parallel_count = 2 /\ failing = {}) =>
        /\ Planned =>
               submodule_batches = << <<<<0, 0>>, <<1, 0>>>>, <<<<0, 1>>, <<0, 2>>>> >>
        /\ cycles <= 2
        /\ pc \in {"finalize", "done"} => cycles = 2
        /\ pc = "done" =>
               /\ Len(final_learning_path.modules) = 2
               /\ final_learning_path.modules[1].id = 0
               /\ OutputIds(final_learning_path.modules[1]) = <<0, 1, 2>>
               /\ final_learning_path.modules[2].id = 1
               /\ OutputIds(final_learning_path.modules[2]) = <<0>>
               /\ \A m \in 1..2 :
                      \A i \in 1..Len(final_learning_path.modules[m].submodules) :
                          final_learning_path.modules[m].submodules[i].content
                              = Content(<<m - 1, i - 1>>)

C14_Witness ==
    /\ enhanced_modules = <<3, 1>>
    /\ submodule_parallel_count = 2
    /\ failing = {}
    /\ pc = "done"
    /\ cycles = 2
    /\ Len(developed_submodules) = 4

\* The batch (1-based) that holds position i of the flat planned order
BatchOfPosition(i) == ((i - 1) \div submodule_parallel_count) + 1

\* C15 (Distribution fairness): in the flat planned order the positions of one
\* Unit's sub-units strictly increase with sub_id, and the sub-units of different
\* Units that have the same relative_position form one run of neighbours ordered
\* by module_id; two neighbours of such a run are in the same batch unless a
\* chunk boundary of size k lies between them.
C15_DistributionFairness ==
    Planned =>
        /\ \A i, j \in 1..Len(PlannedPairs) :
               (PlannedPairs[i][1] = PlannedPairs[j][1]
                    /\ PlannedPairs[i][2] < PlannedPairs[j][2]) => i < j
        /\ \A i, j \in 1..Len(PlannedPairs) :
               (i < j /\ RelPosEqual(PlannedPairs[i], PlannedPairs[j])) =>
                   /\ PlannedPairs[i][1] < PlannedPairs[j][1]
                   /\ \A l \in i..j : RelPosEqual(PlannedPairs[l], PlannedPairs[i])
        /\ \A i \in 1..(Len(PlannedPairs) - 1) :
               /\ PlannedPairs[i] \in Range(submodule_batches[BatchOfPosition(i)])
               /\ (RelPosEqual(PlannedPairs[i], PlannedPairs[i + 1])
                       /\ i % submodule_parallel_count # 0)
                      => PlannedPairs[i + 1] \in Range(submodule_batches[BatchOfPosition(i)])

\* Three Units with a common relative_position other than 0, planned as
\* neighbours, two of them in one batch
C15_Witness ==
    /\ Planned
    /\ Len(enhanced_modules) = 3
    /\ \E i \in 1..(Len(PlannedPairs) - 2) :
           /\ PlannedPairs[i][2] >= 1
           /\ RelPosEqual(PlannedPairs[i], PlannedPairs[i + 1])
           /\ RelPosEqual(PlannedPairs[i], PlannedPairs[i + 2])
           /\ SubCount(enhanced_modules, PlannedPairs[i][1])
                  # SubCount(enhanced_modules, PlannedPairs[i + 1][1])
           /\ BatchOfPosition(i) = BatchOfPosition(i + 1)

\* C16 (Rank grouping): in the flat planned order, for every i, every sub-unit
\* with sub_id = i (of any parent) comes before every sub-unit with sub_id = i + 1
\* (of any parent), for parents of any sizes.
C16_RankGrouping ==
    Planned =>
        \A i, j \in 1..Len(PlannedPairs) :
            PlannedPairs[i][2] + 1 = PlannedPairs[j][2] => i < j

Reverse(s) == [i \in 1..Len(s) |-> s[Len(s) + 1 - i]]

\* s with its first n elements moved to the end
Rotate(s, n) == SubSeq(s, n + 1, Len(s)) \o SubSeq(s, 1, n)

PairsOf(items) == [i \in 1..Len(items) |-> <<items[i].module_id, items[i].sub_id>>]

\* C17 (Deterministic plan): the keys (sub_id / parent_size, module_id) of two
\* distinct WorkItems are distinct, and the batches are the same when the
\* WorkItems are enumerated in another order before the sort (reversed, which
\* also reverses the order stability would keep, or rotated): they depend on the
\* sub-unit counts and k alone.
C17_DeterministicPlan ==
    Planned =>
        /\ \A p, q \in HierarchyKeys(enhanced_modules) :
               p # q => (PairKeyLess(p, q) \/ PairKeyLess(q, p))
        /\ LET items == AllSubmodules(enhanced_modules)
               Replanned(enumeration) ==
                   BatchItems(PairsOf(SortByDistributionKey(enumeration)),
                              submodule_parallel_count)
           IN  items # <<>> =>
                   /\ Replanned(Reverse(items)) = submodule_batches
                   /\ \A n \in 1..(Len(items) - 1) :
                          Replanned(Rotate(items, n)) = submodule_batches

\* A plan with WorkItems of equal relative_position, which only the module_id
\* component of the key tells apart
C17_Witness ==
    /\ Planned
    /\ Len(submodule_batches) >= 2
    /\ \E i \in 1..(Len(PlannedPairs) - 1) :
           /\ PlannedPairs[i][2] >= 1
           /\ RelPosEqual(PlannedPairs[i], PlannedPairs[i + 1])
           /\ BatchOfPosition(i) # BatchOfPosition(i + 1)

\* The keys that have an entry in developed_submodules
DevelopedKeys ==
    {<<developed_submodules[i].module_id, developed_submodules[i].submodule_id>> :
        i \in 1..Len(developed_submodules)}

\* The keys that have an entry in the Finalizer's output
OutputKeys ==
    UNION {{<<final_learning_path.modules[m].id,
              final_learning_path.modules[m].submodules[i].id>> :
                i \in 1..Len(final_learning_path.modules[m].submodules)} :
           m \in 1..Len(final_learning_path.modules)}

\* C18 (Errors are excluded from content): after any number of batch cycles a
\* key has an entry in developed_submodules only if submodules_in_process holds
\* a record of status completed for it; a key whose record has status error has
\* no entry in developed_submodules and none in the Finalizer's output.
C18_ErrorsExcluded ==
    /\ \A key \in DevelopedKeys :
           /\ key \in DOMAIN submodules_in_process
           /\ submodules_in_process[key].status = "completed"
    /\ \A key \in DOMAIN submodules_in_process :
           submodules_in_process[key].status = "error" =>
               /\ key \notin DevelopedKeys
               /\ key \notin OutputKeys
    /\ OutputKeys \subseteq DevelopedKeys

\* A finished run of several cycles in which a batch held a failed entry next
\* to a completed one
C18_Witness ==
    /\ pc = "done"
    /\ cycles >= 2
    /\ OutputKeys # {}
    /\ \E b \in 1..Len(submodule_batches) :
           \E key, other \in Range(BatchAt(b)) :
               /\ submodules_in_process[key].status = "error"
               /\ other \in OutputKeys

\* C19 (No fabricated keys): in every reachable state every key of
\* submodules_in_process and every (module_id, submodule_id) of
\* developed_submodules occurs in a batch of submodule_batches whose index is
\* below current_submodule_batch_index.
C19_NoFabricatedKeys ==
    /\ current_submodule_batch_index <= Len(submodule_batches)
    /\ DOMAIN submodules_in_process \subseteq Range(ProcessedPairs)
    /\ DevelopedKeys \subseteq Range(ProcessedPairs)

\* Records and results of a first batch while later batches are still to come
C19_Witness ==
    /\ pc = "check"
    /\ current_submodule_batch_index = 1
    /\ Len(submodule_batches) >= 2
    /\ Cardinality(DOMAIN submodules_in_process) = 2
    /\ DevelopedKeys # {}
    /\ DevelopedKeys # DOMAIN submodules_in_process

\* The keys whose record a step assigns: those of the outcomes the reduce loop
\* of that step goes through
WrittenKeys ==
    IF pc = "gather" /\ pc' = "check"
    THEN {ResultKey(tasks[i].outcome) : i \in 1..Len(tasks)}
    ELSE {}

\* C20 (Write-once records): each key of submodules_in_process is written at
\* most once during a run: a step writes only keys that have no record yet and
\* leaves every existing record as it is; once a key's record has status
\* completed the unit-processor is not invoked for that key again.
C20_WriteOnce ==
    [][/\ WrittenKeys \cap DOMAIN submodules_in_process = {}
       /\ \A key \in DOMAIN submodules_in_process :
              /\ key \in DOMAIN submodules_in_process'
              /\ submodules_in_process'[key] = submodules_in_process[key]
              /\ submodules_in_process[key].status = "completed"
                     => calls'[key] = calls[key]]_vars

\* A later batch is being processed while the first batch's records, one
\* completed and one error, stand
C20_Witness ==
    /\ pc = "gather"
    /\ current_submodule_batch_index >= 1
    /\ RunningTasks # {}
    /\ \E key, other \in DOMAIN submodules_in_process :
           /\ submodules_in_process[key].status = "completed"
           /\ submodules_in_process[other].status = "error"
           /\ calls[key] = 1
           /\ calls[other] = 1

\* A step that is the batch cycle of a batch: the gather over the current batch
\* has returned and process_submodule_batch returns its update
ProcessesABatch == pc = "gather" /\ pc' = "check"

\* C21 (Batch index): current_submodule_batch_index is 0 after initialization,
\* never decreases, increases by exactly 1 in each batch cycle that processes a
\* batch (and only then), and never exceeds len(submodule_batches).
C21_BatchIndex ==
    /\ []((pc = "process" /\ cycles = 0) => current_submodule_batch_index = 0)
    /\ [](Planned => current_submodule_batch_index <= Len(submodule_batches))
    /\ [][/\ current_submodule_batch_index' >= current_submodule_batch_index
          /\ IF ProcessesABatch
             THEN current_submodule_batch_index' = current_submodule_batch_index + 1
             ELSE current_submodule_batch_index' = current_submodule_batch_index]_vars

\* The index has advanced twice and a batch is still to come
C21_Witness ==
    /\ pc = "check"
    /\ current_submodule_batch_index = 2
    /\ cycles = 2
    /\ Len(submodule_batches) >= 3

\* The entries of the batches up to and including the current one
LaunchablePairs ==
    Concat(SubSeq(submodule_batches, 1,
                  Min(current_submodule_batch_index + 1, Len(submodule_batches))))

Terminal == pc \in {"finalize", "done"}

\* C22 (State-machine routing): on initialized state the check routes to the
\* Finalizer exactly when current_submodule_batch_index >= len(submodule_batches);
\* hence the Finalizer never runs while a batch is unprocessed, every batch has
\* been through exactly one cycle, in batch order, before the Finalizer runs, and
\* no batch is processed once the terminal state is reached.
C22_Routing ==
    /\ [][pc = "check" =>
              (pc' = "finalize"
                  <=> current_submodule_batch_index >= Len(submodule_batches))]_vars
    /\ [](Terminal =>
              /\ current_submodule_batch_index = Len(submodule_batches)
              /\ launched = Range(PlannedPairs)
              /\ \A key \in Range(PlannedPairs) : calls[key] = 1
              /\ cycles = IF submodule_batches = <<>> THEN 1 ELSE Len(submodule_batches))
    /\ [](Planned => launched \subseteq Range(LaunchablePairs))
    /\ [][Terminal =>
              /\ Terminal'
              /\ cycles' = cycles
              /\ calls' = calls
              /\ submodules_in_process' = submodules_in_process]_vars

\* The Finalizer has run after three batches
C22_Witness ==
    /\ pc = "done"
    /\ Len(submodule_batches) >= 3
    /\ cycles = Len(submodule_batches)
    /\ Cardinality(launched) = N

\* The entries of the current batch that are inside the hierarchy and whose
\* record, if any, is not of status completed, in batch order
ToLaunch ==
    LET Wanted(key) ==
            /\ key[1] < Len(enhanced_modules)
            /\ key[2] < enhanced_modules[key[1] + 1]
            /\ \/ key \notin DOMAIN submodules_in_process
               \/ submodules_in_process[key].status # "completed"
    IN  SelectSeq(CurrentBatch, Wanted)

\* C23 (Resumable skip): process_submodule_batch launches the unit-processor
\* for exactly the in-bounds entries of the current batch whose record is not
\* already completed (no record, or a record of status error), and the gather
\* gives one outcome per launched entry, for that entry.
C23_ResumableSkip ==
    [][(pc = "process" /\ ~PastEnd) =>
           /\ [i \in 1..Len(tasks') |-> tasks'[i].key] = ToLaunch
           /\ launched' = launched \cup Range(ToLaunch)]_vars
    /\ [][ProcessesABatch =>
           /\ Len(GatherResults(tasks)) = Len(tasks)
           /\ \A i \in 1..Len(tasks) :
                  /\ tasks[i].outcome.status \in {"completed", "error"}
                  /\ <<tasks[i].outcome.module_id, tasks[i].outcome.sub_id>> = tasks[i].key
                  /\ calls[tasks[i].key] >= 1]_vars

\* An invocation on a batch with a completed entry and an entry in error has
\* launched the second and not the first
C23_Witness ==
    /\ pc = "check"
    /\ current_submodule_batch_index >= 1
    /\ Len(BatchAt(current_submodule_batch_index)) = 2
    /\ Len(tasks) = 1
    /\ tasks[1].key \in failing
    /\ calls[tasks[1].key] = 2
    /\ \E key \in Range(BatchAt(current_submodule_batch_index)) :
           /\ key # tasks[1].key
           /\ calls[key] = 1
           /\ submodules_in_process[key].status = "completed"

\* The entries of the current batch that lie outside the hierarchy
MalformedEntries == Range(CurrentBatch) \ HierarchyKeys(enhanced_modules)

\* C26 (Malformed indices are skipped, not fatal): a batch entry whose module_id
\* or sub_id is outside the hierarchy launches no unit-processor call, gets no
\* record and no entry in developed_submodules from the cycle, the other entries
\* of the batch are processed, and the batch index advances by 1.
C26_MalformedSkipped ==
    /\ [](\A i \in 1..Len(tasks) : tasks[i].key \in HierarchyKeys(enhanced_modules))
    /\ [](pc = "gather" => ENABLED (\E i \in 1..MalMaxK + 1 : TaskStart(i))
                           \/ ENABLED (\E i \in 1..MalMaxK + 1 : TaskFinish(i))
                           \/ ENABLED BatchReduce)
    /\ [][ProcessesABatch =>
           /\ \A key \in MalformedEntries :
                  /\ key \in DOMAIN submodules_in_process'
                         <=> key \in DOMAIN submodules_in_process
                  /\ key \in DOMAIN submodules_in_process
                         => submodules_in_process'[key] = submodules_in_process[key]
           /\ \A i \in (Len(developed_submodules) + 1)..Len(developed_submodules') :
                  <<developed_submodules'[i].module_id,
                    developed_submodules'[i].submodule_id>>
                      \in HierarchyKeys(enhanced_modules)
           /\ \A key \in Range(CurrentBatch) \ MalformedEntries :
                  /\ key \in DOMAIN submodules_in_process'
                  /\ submodules_in_process'[key].status \in {"completed", "error"}
           /\ current_submodule_batch_index' = current_submodule_batch_index + 1]_vars

\* The cycle of a batch of two entries, one outside the hierarchy and without a
\* record, the other processed to completion
C26_Witness ==
    /\ pc = "check"
    /\ current_submodule_batch_index = 1
    /\ Len(BatchAt(1)) = 2
    /\ \E key, other \in Range(BatchAt(1)) :
           /\ key \notin HierarchyKeys(enhanced_modules)
           /\ key \notin DOMAIN submodules_in_process
           /\ key \notin launched
           /\ other \in HierarchyKeys(enhanced_modules)
           /\ calls[other] = 1
           /\ submodules_in_process[other].status = "completed"
           /\ DevelopedEntry(other) \in Range(developed_submodules)

\* C24 (Empty hierarchy): when there is no Unit, or no Unit has a sub-unit,
\* initialize_submodule_processing yields zero batches with index 0, no
\* unit-processor call is ever made, the first check routes to the Finalizer, and
\* the Finalizer is called with an empty results list.
C24_EmptyHierarchy ==
    /\ [](N = 0 =>
              /\ Planned => (submodule_batches = <<>> /\ current_submodule_batch_index = 0)
              /\ tasks = <<>>
              /\ launched = {}
              /\ cycles <= 1
              /\ pc = "check" => cycles = 1
              /\ Terminal => developed_submodules = <<>>
              /\ pc = "done" => final_learning_path.modules = <<>>)
    /\ [][(N = 0 /\ pc = "check") => pc' = "finalize"]_vars

\* Two Units without sub-units, run to the end
C24_Witness ==
    /\ N = 0
    /\ Len(enhanced_modules) = 2
    /\ pc = "done"
    /\ cycles = 1

\* Every task launched so far has terminated
AllTasksTerminated ==
    /\ \A i \in 1..Len(tasks) : tasks[i].st = "done"
    /\ orphans = {}

\* C25 (No concurrent writer): while the tasks of a batch are running (from
\* their launch until the gather has returned) submodules_in_process and
\* developed_submodules are not modified; every write to them is made by the
\* reduce phase of process_submodule_batch, when all the tasks launched for the
\* batch have terminated.
C25_NoConcurrentWriter ==
    [][(submodules_in_process' # submodules_in_process
            \/ developed_submodules' # developed_submodules)
           => (ProcessesABatch /\ AllTasksTerminated /\ tasks' = tasks)]_vars

\* The first of two running tasks has returned, the other is still running, and
\* nothing has been written for the batch
C25_Witness ==
    /\ pc = "gather"
    /\ Len(tasks) = 2
    /\ tasks[1].st = "done"
    /\ tasks[1].outcome.status = "completed"
    /\ tasks[2].st = "running"
    /\ tasks[1].key \notin DOMAIN submodules_in_process
    /\ DevelopedEntry(tasks[1].key) \notin Range(developed_submodules)

\* A unit-processor call of the current batch has not returned
SomeCallPending == pc = "gather" /\ \E i \in 1..Len(tasks) : tasks[i].st # "done"

\* C30 (No timeout): as long as the unit-processor call of an item of the
\* current batch has not returned, the batch cycle does not complete,
\* current_submodule_batch_index does not advance and the Finalizer is not
\* reached, even when every sibling of the item has terminated: a call that never
\* returns stalls its batch for ever.
C30_NoTimeout ==
    [][SomeCallPending =>
           /\ pc' = "gather"
           /\ current_submodule_batch_index' = current_submodule_batch_index
           /\ submodules_in_process' = submodules_in_process
           /\ developed_submodules' = developed_submodules
           /\ final_learning_path' = final_learning_path]_vars

\* One call of a batch of two is still running after its sibling has returned
C30_Witness ==
    /\ pc = "gather"
    /\ Len(tasks) = 2
    /\ tasks[1].st = "running"
    /\ tasks[2].st = "done"
    /\ current_submodule_batch_index + 1 < Len(submodule_batches)

PlanningReturned == pc = "initialize" /\ modules # <<>>

\* C27 (Planning failure isolation): when the planning of some Units raises,
\* plan_submodules still returns one enhanced module per input module, in input
\* order; a failed Unit is replaced by a fallback with the same title and
\* description and an empty sub-unit list, and the other Units keep their planned
\* sub-units.
C27_PlanningFailureIsolation ==
    PlanningReturned =>
        /\ Len(processed_modules) = Len(modules)
        /\ Len(enhanced_modules) = Len(modules)
        /\ \A idx \in 1..Len(modules) :
               /\ processed_modules[idx].title = modules[idx].title
               /\ processed_modules[idx].description = modules[idx].description
               /\ processed_modules[idx].submodules =
                      IF idx \in plan_failing THEN 0 ELSE modules[idx].subs
               /\ enhanced_modules[idx] = processed_modules[idx].submodules

\* Three modules of which the second failed to plan
C27_Witness ==
    /\ PlanningReturned
    /\ Len(modules) = 3
    /\ plan_failing = {2}
    /\ processed_modules[2].submodules = 0
    /\ processed_modules[3].submodules = 2

\* C28 (Planning cap): at every moment of plan_submodules at most parallel_count
\* calls of plan_module_submodules are in progress, and, every planning call
\* terminating, plan_submodules returns with every module planned once.
C28_PlanningCap ==
    /\ [](Cardinality(PlanningNow(plan_tasks)) <= parallel_count)
    /\ [](PlanningReturned =>
              /\ Len(plan_tasks) = Len(modules)
              /\ \A i \in 1..Len(plan_tasks) : plan_tasks[i].st = "done")
    /\ [][\A i \in 1..Len(plan_tasks) :
              plan_tasks[i].st = "done" =>
                  (i \in 1..Len(plan_tasks') /\ plan_tasks'[i] = plan_tasks[i])]_vars
    /\ (pc = "plan") ~> (pc = "initialize")

\* More modules than permits: the permits are all taken and a task waits
C28_Witness ==
    /\ pc = "plan_gather"
    /\ parallel_count = 2
    /\ Len(modules) = 3
    /\ Cardinality(PlanningNow(plan_tasks)) = 2
    /\ plan_tasks[3].st = "waiting"

\* C29 (Finalization failure): when an exception occurs during the assembly in
\* finalize_enhanced_learning_path, the function does not propagate it and
\* returns a final_learning_path with the topic preserved, an empty modules list
\* and an explicit error field.
C29_FinalizationFailure ==
    (assembly_raises /\ developed_submodules # <<>>) =>
        /\ pc \in {"finalize", "done"}
        /\ pc = "done" =>
               /\ final_learning_path.topic = UserTopic
               /\ final_learning_path.modules = <<>>
               /\ "error" \in DOMAIN final_learning_path

C29_Witness ==
    /\ assembly_raises
    /\ Len(developed_submodules) >= 2
    /\ pc = "done"
    /\ "error" \in DOMAIN final_learning_path

\* The keys whose record has the given status
RecordsWith(status) ==
    {key \in DOMAIN submodules_in_process : submodules_in_process[key].status = status}

\* C31 (No lost item): once the batch cycle of a batch has returned, every
\* in-bounds entry of that batch has a record of status completed or error;
\* hence at the terminal state the completed records and the error records
\* together number N, the number of WorkItems.
C31_NoLostItem ==
    /\ Planned =>
           \A i \in 1..Len(ProcessedPairs) :
               InBounds(enhanced_modules, ProcessedPairs[i]) =>
                   /\ ProcessedPairs[i] \in DOMAIN submodules_in_process
                   /\ submodules_in_process[ProcessedPairs[i]].status
                          \in {"completed", "error"}
    /\ Terminal =>
           Cardinality(RecordsWith("completed")) + Cardinality(RecordsWith("error")) = N

\* The key (module_id, sub_id) of each entry of developed_submodules, in order
DevelopedKeySeq ==
    [i \in 1..Len(developed_submodules) |->
        <<developed_submodules[i].module_id, developed_submodules[i].submodule_id>>]

\* C32 (No duplicate results): after any sequence of process_submodule_batch
\* invocations, a repeated invocation on a batch whose entries are already
\* completed included, developed_submodules holds at most one entry per key
\* (module_id, sub_id), so its length is the number of completed records.
C32_NoDuplicateResults ==
    pc \in {"process", "check", "finalize", "done"} =>
        /\ NoDuplicates(DevelopedKeySeq)
        /\ Len(developed_submodules) = Cardinality(RecordsWith("completed"))

\* C33 (Exactly-once processing): over a pipeline run driven by the graph loop
\* the unit-processor is invoked exactly once for each (module_id, sub_id) of the
\* hierarchy: never twice, once for every entry of a batch whose cycle has
\* returned, once for every key at the terminal state; an item whose outcome
\* was error is never invoked again.
C33_ExactlyOnce ==
    /\ [](Planned =>
              \A key \in HierarchyKeys(enhanced_modules) :
                  /\ calls[key] <= 1
                  /\ key \in Range(ProcessedPairs) => calls[key] = 1)
    /\ [](Terminal => \A key \in HierarchyKeys(enhanced_modules) : calls[key] = 1)
    /\ [][\A key \in DOMAIN submodules_in_process :
              submodules_in_process[key].status = "error" => calls'[key] = calls[key]]_vars

\* The run ended after at least two batches, with an error record in the first
C33_Witness ==
    /\ pc = "done"
    /\ Len(submodule_batches) >= 2
    /\ \E key \in Range(BatchAt(1)) :
           /\ key \in DOMAIN submodules_in_process
           /\ submodules_in_process[key].status = "error"
           /\ calls[key] = 1

\* for i, sub in enumerate(submodules): sub.order = i + 1, where the position i
\* of a sub-unit in its Unit is its sub_id
PlannedOrder(sub_id) == sub_id + 1

\* The positions (Unit, entry) of the output at which an entry of
\* developed_submodules appears
OutputPositions(sub) ==
    {<<m, j>> \in UNION {{m} \X (1..Len(final_learning_path.modules[m].submodules)) :
                             m \in 1..Len(final_learning_path.modules)} :
        /\ final_learning_path.modules[m].submodules[j].id = sub.submodule_id
        /\ final_learning_path.modules[m].submodules[j].content = sub.content}

\* Each entry of developed_submodules with a valid module_id is exactly once in
\* the output, under its own Unit, with id = sub-unit id and order = id + 1
GroupedUnderOwnUnit ==
    \A i \in 1..Len(developed_submodules) :
        LET sub == developed_submodules[i]
        IN  sub.module_id < Len(enhanced_modules) =>
                /\ Cardinality(OutputPositions(sub)) = 1
                /\ \A pos \in OutputPositions(sub) :
                       /\ final_learning_path.modules[pos[1]].id = sub.module_id
                       /\ final_learning_path.modules[pos[1]].submodules[pos[2]].order
                              = PlannedOrder(sub.submodule_id)
                       /\ final_learning_path.modules[pos[1]].submodules[pos[2]].order
                              = sub.submodule_id + 1

\* The output has no sub-unit that is not in developed_submodules
NoForeignSubUnit ==
    \A m \in 1..Len(final_learning_path.modules) :
        \A j \in 1..Len(final_learning_path.modules[m].submodules) :
            \E i \in 1..Len(developed_submodules) :
                /\ developed_submodules[i].module_id = final_learning_path.modules[m].id
                /\ developed_submodules[i].submodule_id
                       = final_learning_path.modules[m].submodules[j].id
                /\ developed_submodules[i].content
                       = final_learning_path.modules[m].submodules[j].content

\* The Unit ids of the output are 0..n-1 in hierarchy order, n the number of Units
UnitIdsInHierarchyOrder ==
    /\ Len(final_learning_path.modules) = Len(enhanced_modules)
    /\ \A m \in 1..Len(final_learning_path.modules) :
           final_learning_path.modules[m].id = m - 1

\* C34 as claimed (Finalizer grouping): each entry of developed_submodules whose
\* module_id is a valid Unit index is exactly once in the output, under the Unit
\* whose id is its module_id, with id = sub-unit id and order = sub-unit id + 1
\* (the order assigned at planning); the output has no sub-unit that is not in
\* developed_submodules; the Unit ids are 0..n-1 in hierarchy order.
C34_FinalizerGrouping_Claimed ==
    pc = "done" =>
        /\ GroupedUnderOwnUnit
        /\ NoForeignSubUnit
        /\ UnitIdsInHierarchyOrder

\* C34 as amended: the same grouping, with the Unit ids 0..n-1 in hierarchy order
\* when developed_submodules is non-empty and no Unit at all in the output when
\* it is empty.
C34_FinalizerGrouping_Amended ==
    pc = "done" =>
        /\ GroupedUnderOwnUnit
        /\ NoForeignSubUnit
        /\ IF developed_submodules = <<>>
           THEN final_learning_path.modules = <<>>
           ELSE UnitIdsInHierarchyOrder

\* Results of two Units, one of them appended in descending order, and one
\* result whose Unit is no longer in the hierarchy and stays out of the output
C34_Witness ==
    /\ pc = "done"
    /\ \E i, j \in 1..Len(developed_submodules) :
           /\ i < j
           /\ developed_submodules[i].module_id = developed_submodules[j].module_id
           /\ developed_submodules[i].module_id < Len(enhanced_modules)
           /\ developed_submodules[i].submodule_id > developed_submodules[j].submodule_id
    /\ \E i \in 1..Len(developed_submodules) :
           /\ developed_submodules[i].module_id >= Len(enhanced_modules)
           /\ OutputPositions(developed_submodules[i]) = {}

\* C35 (Progress figures): the percentage computed at the end of batch cycle
\* number i (1-based) of B batches is floor(100 * i / B), lies in 0..100 and is
\* 100 exactly at the last batch; the continue branch of
\* check_submodule_batch_processing computes processed_count <= total_count over
\* the batches below the current index, total_count being the number of entries
\* of those batches, and a progress percentage strictly below 100.
C35_ProgressFigures ==
    /\ progress.kind = "batch" =>
           /\ progress.processed_count = cycles
           /\ progress.total_count = Len(submodule_batches)
           /\ progress.percentage
                  = (100 * progress.processed_count) \div progress.total_count
           /\ progress.percentage \in 0..100
           /\ progress.percentage = 100
                  <=> progress.processed_count = Len(submodule_batches)
    /\ progress.kind = "check" =>
           /\ progress.processed_count <= progress.total_count
           /\ progress.total_count = Len(ProcessedPairs)
           /\ progress.progress_pct < 100

\* C36 (The transition check is read-only): a step of
\* check_submodule_batch_processing, in either branch, leaves
\* current_submodule_batch_index, submodule_batches, submodules_in_process and
\* developed_submodules unchanged; only a step in which process_submodule_batch
\* returns the update of a batch increments the index.
C36_CheckReadOnly ==
    [][/\ pc = "check" =>
              /\ current_submodule_batch_index' = current_submodule_batch_index
              /\ submodule_batches' = submodule_batches
              /\ submodules_in_process' = submodules_in_process
              /\ developed_submodules' = developed_submodules
       /\ current_submodule_batch_index' > current_submodule_batch_index
              => ProcessesABatch]_vars

\* The check has taken its continue branch after a batch that left a completed
\* and an error record
C36_Witness ==
    /\ pc = "process"
    /\ progress.kind = "check"
    /\ progress.processed_count >= 2
    /\ current_submodule_batch_index >= 1
    /\ RecordsWith("completed") # {}
    /\ RecordsWith("error") # {}
    /\ developed_submodules # <<>>

\* C37 (Invocation past the end is a no-op): process_submodule_batch invoked
\* with current_submodule_batch_index >= len(submodule_batches) creates no task,
\* launches no unit-processor call and returns an update that leaves the index,
\* submodules_in_process and developed_submodules unchanged.
C37_PastEndNoOp ==
    [][(pc = "process" /\ PastEnd) =>
           /\ pc' = "check"
           /\ tasks' = tasks
           /\ launched' = launched
           /\ calls' = calls
           /\ current_submodule_batch_index' = current_submodule_batch_index
           /\ submodules_in_process' = submodules_in_process
           /\ developed_submodules' = developed_submodules]_vars

\* An invocation past the end of two or more processed batches has returned
C37_Witness ==
    /\ pc = "check"
    /\ Len(submodule_batches) >= 2
    /\ current_submodule_batch_index = Len(submodule_batches)
    /\ cycles = Len(submodule_batches) + 1
    /\ tasks = <<>>
    /\ developed_submodules # <<>>

\* Whether the state lacks current_submodule_batch_index or submodule_batches
Uninitialized ==
    absent \cap {"current_submodule_batch_index", "submodule_batches"} # {}

\* C38 (Uninitialized state is treated as terminal): when
\* current_submodule_batch_index or submodule_batches is absent from the state,
\* check_submodule_batch_processing returns "all_batches_processed", so its step
\* routes to the Finalizer and the state it read is left as it was.
C38_UninitializedIsTerminal ==
    [][(pc = "check" /\ Uninitialized) =>
           /\ pc' = "finalize"
           /\ absent' = absent
           /\ cycles' = cycles]_vars

\* The check has routed to the Finalizer with planned batches unprocessed and
\* no index in the state
C38_Witness ==
    /\ pc = "finalize"
    /\ "current_submodule_batch_index" \in absent
    /\ Len(submodule_batches) >= 2
    /\ current_submodule_batch_index < Len(submodule_batches)

\* A step that is a run of apply_migrations
MigrationRun == database'.runs = database.runs + 1

\* The schema and the stored values of the database
SchemaAndValues(db) == <<db.table, db.columns, db.index, db.rows>>

\* C39 (Migration idempotence): a run of apply_migrations adds the column
\* last_used_at, and nothing but it, only when the sessions table exists and the
\* column is absent; a run after a first run changes neither the schema nor the
\* stored last_used_at values; a run without a sessions table changes nothing.
C39_MigrationIdempotence ==
    [][MigrationRun =>
           /\ database'.table = database.table
           /\ database'.columns # database.columns =>
                  /\ database.table
                  /\ "last_used_at" \notin database.columns
                  /\ database'.columns = database.columns \cup {"last_used_at"}
           /\ database.runs >= 1 =>
                  SchemaAndValues(database') = SchemaAndValues(database)
           /\ ~database.table =>
                  SchemaAndValues(database') = SchemaAndValues(database)]_vars

\* A second run, at a later time, has left the values the first run stored
C39_Witness ==
    /\ database.runs = 2
    /\ database.url = "sqlite"
    /\ "last_used_at" \in database.columns
    /\ database.index
    /\ Len(database.rows) = 2
    /\ database.now = 3
    /\ \A i \in DOMAIN database.rows : database.rows[i] = {1}

====
